---- MODULE Spec2Model ----
(***************************************************************************)
(* Webhook signature verification of the Molam SDKs.                       *)
(*                                                                         *)
(* A Python str is a sequence of code points (integers), a Python bytes    *)
(* object a sequence of integers 0..255.  The sender signs a body, the     *)
(* network may replace the body or the header, the receiver runs one of    *)
(* the repository's verification functions on what arrived.                *)
(***************************************************************************)
EXTENDS Integers, Sequences, FiniteSets, TLC

(***************************************************************************)
(* Bounds of the model.                                                    *)
(***************************************************************************)
\* longest request body, in bytes
MaxBodyLen == 2
\* value of time.time() * 1000 when the webhook is verified
ClockMs == 1000000

(***************************************************************************)
(* Characters and literals.                                                *)
(***************************************************************************)
\* code point of a one-character literal (ord); "e'" stands for U+00E9
Ord(c) ==
    CASE c = " " -> 32 [] c = "+" -> 43 [] c = "," -> 44 [] c = "-" -> 45
      [] c = "." -> 46 [] c = "0" -> 48 [] c = "1" -> 49 [] c = "2" -> 50
      [] c = "=" -> 61 [] c = "_" -> 95 [] c = "a" -> 97 [] c = "b" -> 98
      [] c = "c" -> 99 [] c = "d" -> 100 [] c = "i" -> 105 [] c = "j" -> 106
      [] c = "k" -> 107 [] c = "m" -> 109 [] c = "n" -> 110 [] c = "o" -> 111
      [] c = "l" -> 108 [] c = "{" -> 123 [] c = "}" -> 125
      [] c = "e" -> 101 [] c = "h" -> 104 [] c = "p" -> 112 [] c = "r" -> 114
      [] c = "f" -> 102 [] c = "u" -> 117 [] c = "y" -> 121
      [] c = "s" -> 115 [] c = "t" -> 116
      [] c = "u" -> 117 [] c = "v" -> 118 [] c = "w" -> 119 [] c = "x" -> 120
      [] c = "y" -> 121 [] c = "e'" -> 233

\* the str written as a tuple of one-character literals
S(lit) == [i \in 1..Len(lit) |-> Ord(lit[i])]

\* literals of the code
KeyT == S(<<"t">>)
KeyV1 == S(<<"v", "1">>)
KeyKid == S(<<"k", "i", "d">>)
Period == S(<<".">>)
PrefixT == S(<<"t", "=">>)
CommaPrefixV1 == S(<<",", "v", "1", "=">>)
CommaPrefixKid == S(<<",", "k", "i", "d", "=">>)
PrefixV1 == S(<<"v", "1", "=">>)
PrefixKid == S(<<"k", "i", "d", "=">>)
Comma == Ord(",")
EqualsSign == Ord("=")
Underscore == Ord("_")

\* the value None, and the absence of a str or bytes value
None == <<-1>>

(***************************************************************************)
(* str and bytes primitives of the Python runtime, as the code uses them.  *)
(***************************************************************************)
\* bytes.decode("utf-8"), strict: one-byte and two-byte forms; a lead byte
\* 0xC2..0xDF needs one continuation byte 0x80..0xBF, every other byte
\* >= 0x80 in lead position is an error (0xE0.. lead bytes are outside the
\* byte alphabet of the model).  Returns the str, or None for
\* UnicodeDecodeError.
RECURSIVE Utf8Decode(_)
Utf8Decode(bytes) ==
    IF bytes = <<>> THEN <<>>
    ELSE IF bytes[1] < 128
         THEN LET rest == Utf8Decode(Tail(bytes))
              IN IF rest = None THEN None ELSE <<bytes[1]>> \o rest
    ELSE IF /\ bytes[1] >= 194 /\ bytes[1] <= 223 /\ Len(bytes) >= 2
            /\ bytes[2] >= 128 /\ bytes[2] <= 191
         THEN LET rest == Utf8Decode(SubSeq(bytes, 3, Len(bytes)))
              IN IF rest = None THEN None
                 ELSE <<(bytes[1] - 192) * 64 + (bytes[2] - 128)>> \o rest
    ELSE None

\* str.encode("utf-8") for code points below 0x800
RECURSIVE Utf8Encode(_)
Utf8Encode(str) ==
    IF str = <<>> THEN <<>>
    ELSE IF str[1] < 128 THEN <<str[1]>> \o Utf8Encode(Tail(str))
    ELSE <<192 + (str[1] \div 64), 128 + (str[1] % 64)>> \o Utf8Encode(Tail(str))

\* str.isspace() of one character (ASCII white space)
IsSpace(cp) == cp \in {9, 10, 11, 12, 13, 32}

\* str.strip()
RECURSIVE Strip(_)
Strip(str) ==
    IF str = <<>> THEN <<>>
    ELSE IF IsSpace(str[1]) THEN Strip(Tail(str))
    ELSE IF IsSpace(str[Len(str)]) THEN Strip(SubSeq(str, 1, Len(str) - 1))
    ELSE str

\* str.split(sep): the list of the segments between the separators
RECURSIVE Split(_, _)
Split(str, sep) ==
    IF \E i \in 1..Len(str) : str[i] = sep
    THEN LET i == CHOOSE i \in 1..Len(str) :
                      /\ str[i] = sep
                      /\ \A j \in 1..(i - 1) : str[j] # sep
         IN <<SubSeq(str, 1, i - 1)>> \o Split(SubSeq(str, i + 1, Len(str)), sep)
    ELSE <<str>>

\* variant: str.rsplit("=", 1), the split taken at the last "="
SplitFirst_AtLast(str) ==
    IF \E i \in 1..Len(str) : str[i] = EqualsSign
    THEN LET i == CHOOSE i \in 1..Len(str) :
                      /\ str[i] = EqualsSign
                      /\ \A j \in (i + 1)..Len(str) : str[j] # EqualsSign
         IN <<SubSeq(str, 1, i - 1), SubSeq(str, i + 1, Len(str))>>
    ELSE <<str>>

\* str.split("=", 1): one element when there is no "=", else the text
\* before the first "=" and everything after it
SplitFirst(str) ==
    IF \E i \in 1..Len(str) : str[i] = EqualsSign
    THEN LET i == CHOOSE i \in 1..Len(str) :
                      /\ str[i] = EqualsSign
                      /\ \A j \in 1..(i - 1) : str[j] # EqualsSign
         IN <<SubSeq(str, 1, i - 1), SubSeq(str, i + 1, Len(str))>>
    ELSE <<str>>

IsDigit(cp) == cp >= 48 /\ cp <= 57

\* value of a run of decimal digits separated by single underscores
RECURSIVE DigitsValue(_, _)
DigitsValue(str, acc) ==
    IF str = <<>> THEN acc
    ELSE IF str[1] = Underscore THEN DigitsValue(Tail(str), acc)
    ELSE DigitsValue(Tail(str), acc * 10 + (str[1] - 48))

\* the digit grammar of int(): digits, single underscores only between digits
IsDigitRun(str) ==
    /\ str # <<>>
    /\ IsDigit(str[1]) /\ IsDigit(str[Len(str)])
    /\ \A i \in 1..Len(str) : IsDigit(str[i]) \/ str[i] = Underscore
    /\ \A i \in 1..(Len(str) - 1) : ~(str[i] = Underscore /\ str[i + 1] = Underscore)

\* int(str): white space stripped, optional sign, digit run.
\* Returns <<TRUE, value>>, or <<FALSE, 0>> for ValueError.
ParseInt(str) ==
    LET s == Strip(str)
        signed == s # <<>> /\ s[1] \in {Ord("+"), Ord("-")}
        digits == IF signed THEN Tail(s) ELSE s
    IN IF IsDigitRun(digits)
       THEN <<TRUE, IF signed /\ s[1] = Ord("-")
                    THEN 0 - DigitsValue(digits, 0)
                    ELSE DigitsValue(digits, 0)>>
       ELSE <<FALSE, 0>>

\* str(int) / f"{int}": the decimal form, no leading zeros
RECURSIVE FormatNat(_)
FormatNat(n) ==
    IF n < 10 THEN <<48 + n>> ELSE FormatNat(n \div 10) \o <<48 + (n % 10)>>

FormatInt(n) == IF n < 0 THEN <<Ord("-")>> \o FormatNat(0 - n) ELSE FormatNat(n)

\* abs()
Abs(n) == IF n < 0 THEN 0 - n ELSE n

\* one byte as two lowercase hexadecimal digits
HexChar(d) == IF d < 10 THEN 48 + d ELSE 87 + d
HexByte(b) == <<HexChar(b \div 16), HexChar(b % 16)>>

RECURSIVE HexBytes(_)
HexBytes(bytes) ==
    IF bytes = <<>> THEN <<>> ELSE HexByte(bytes[1]) \o HexBytes(Tail(bytes))

\* hmac.new(key, msg, hashlib.sha256).hexdigest(): a lowercase hexadecimal
\* str determined by key and message.  The hash is taken as collision
\* free: the digest spells out the key length, the key and the message.
HmacSha256Hex(key, msg) == HexByte(Len(key)) \o HexBytes(key) \o HexBytes(msg)

\* hmac.compare_digest(a, b) on two str: "TypeError" when either holds a
\* non-ASCII character, else whether they are equal
CompareDigest(a, b) ==
    IF \E i \in 1..Len(a) : a[i] > 127 THEN "TypeError"
    ELSE IF \E i \in 1..Len(b) : b[i] > 127 THEN "TypeError"
    ELSE IF a = b THEN "equal" ELSE "differ"

\* ",".join(segments)
RECURSIVE Join(_)
Join(segs) ==
    IF segs = <<>> THEN <<>>
    ELSE IF Len(segs) = 1 THEN segs[1]
    ELSE segs[1] \o <<Comma>> \o Join(Tail(segs))


(***************************************************************************)
(* dict as a function; the resolver callback; results of a call.           *)
(***************************************************************************)
\* dict filled from key/value pairs in order: a repeated key keeps its
\* last value
DictOf(pairs) ==
    [k \in {pairs[i][1] : i \in 1..Len(pairs)} |->
        LET i == CHOOSE i \in 1..Len(pairs) :
                     /\ pairs[i][1] = k
                     /\ \A j \in (i + 1)..Len(pairs) : pairs[j][1] # k
        IN pairs[i][2]]

\* dict.get(key, default)
DictGet(d, key, default) == IF key \in DOMAIN d THEN d[key] ELSE default

\* what a resolver table holds for a kid whose call raises, and the key
\* under which a table holds what it does for every kid not listed
ResolverRaises == <<-2>>
AnyKid == <<-3>>

\* variant: the call is wrapped in try/except and a raising resolver is
\* taken for one that found nothing
Lookup_Swallow(resolver, kid) ==
    LET found == IF kid \in DOMAIN resolver THEN resolver[kid]
                 ELSE DictGet(resolver, AnyKid, None)
    IN IF found = ResolverRaises THEN None ELSE found

\* get_secret_by_kid(kid): the callback looks the kid up in its table and
\* returns None for a kid it does not know; ResolverRaises stands for a
\* call that raises
Lookup(resolver, kid) ==
    IF kid \in DOMAIN resolver THEN resolver[kid]
    ELSE DictGet(resolver, AnyKid, None)

\* d[key] where the code has made sure of the key; None otherwise
Item(d, key) == DictGet(d, key, None)

\* variant: the edge of the window rejected, >= for >
OutsideTolerance_Inclusive(now, timestamp, tolerance) == Abs(now - timestamp) >= tolerance

\* abs(now_ms - timestamp_ms) > tolerance
OutsideTolerance(now, timestamp, tolerance) == Abs(now - timestamp) > tolerance

\* variant: `secret is None`, the empty str taken for a secret
Falsy_NoneOnly(secret) == secret = None

\* `not secret`: None or the empty str
Falsy(secret) == secret = None \/ secret = <<>>

\* The outcome of one call: "True", "False" or "raise" with the exception
\* class and its message; calls lists the kids the resolver was asked for,
\* key and signed are the HMAC key and message when a digest was computed,
\* text is what the message interpolates after its fixed wording.
Outcome(outcome, exc, reason, calls, key, signed) ==
    [outcome |-> outcome, exc |-> exc, reason |-> reason,
     calls |-> calls, key |-> key, signed |-> signed, text |-> <<>>,
     logged |-> <<>>]

Raise(exc, reason, calls) == Outcome("raise", exc, reason, calls, None, None)

\* a line written to the log or to stdout: the fixed wording and the
\* texts interpolated into it
Line(fmt, args) == [fmt |-> fmt, args |-> args]

\* the outcome o of a call that has logged the line before it returned
Logged(o, line) == [o EXCEPT !.logged = <<line>>]

\* raise exc(f"<reason>: {text}")
RaiseText(exc, reason, text, calls) == [Raise(exc, reason, calls) EXCEPT !.text = text]

\* the exception of the resolver of examples/webhook_receiver.py,
\* SignatureError(f"No secret configured for kid={kid}"), as it leaves
\* the verifier that made the call
ResolverFault(kid) ==
    RaiseText("SignatureError", "No secret configured for kid", kid, <<kid>>)

(***************************************************************************)
(* brique-105: molam_sdk/utils/webhook.py                                  *)
(***************************************************************************)
\* the text of f"{missing}": the missing keys; a set prints in no fixed
\* order, they are written here t, v1, kid
MissingText(missing) ==
    (IF KeyT \in missing THEN KeyT ELSE <<>>)
    \o (IF KeyV1 \in missing THEN KeyV1 ELSE <<>>)
    \o (IF KeyKid \in missing THEN KeyKid ELSE <<>>)

\* the numbers of the out-of-tolerance messages: f"{age}ms ... {max}ms"
AgeText(age, max) == FormatInt(age) \o S(<<"m", "s">>) \o FormatInt(max) \o S(<<"m", "s">>)

\* parse_signature_header: err is the SignatureError message, "" when the
\* dict is returned; pair is the segment the message names
\* variant: kid not required
RequiredFields_NoKid == {KeyT, KeyV1}

\* required_fields of verify_signature
RequiredFields == {KeyT, KeyV1, KeyKid}

parse_signature_header(header) ==
    IF header = <<>>
    THEN [err |-> "Missing signature header", pair |-> <<>>, parts |-> <<>>]
    ELSE LET segs == Split(header, Comma)
             pairs == [i \in 1..Len(segs) |-> SplitFirst(segs[i])]
             bad == {i \in 1..Len(pairs) : Len(pairs[i]) = 1}
         IN IF bad # {}
            THEN [err |-> "Invalid signature header format",
                  pair |-> segs[CHOOSE i \in bad : \A j \in bad : i <= j],
                  parts |-> <<>>]
            ELSE [err |-> "", pair |-> <<>>,
                  parts |-> DictOf([i \in 1..Len(pairs) |->
                               <<Strip(pairs[i][1]), Strip(pairs[i][2])>>])]

verify_signature(header, raw_body, get_secret_by_kid, tolerance_ms, now) ==
    IF header = <<>>
    THEN Raise("SignatureError", "Missing signature header", <<>>)
    ELSE
    LET parsed == parse_signature_header(header)
        parts == parsed.parts
    IN
    IF parsed.err # "" THEN RaiseText("SignatureError", parsed.err, parsed.pair, <<>>)
    ELSE IF ~(RequiredFields \subseteq DOMAIN parts)
    THEN RaiseText("SignatureError", "Missing required fields in signature",
                   MissingText(RequiredFields \ DOMAIN parts), <<>>)
    ELSE
    LET timestamp_ms == ParseInt(Item(parts, KeyT))
        signature == Item(parts, KeyV1)
        kid == Item(parts, KeyKid)
    IN
    IF ~timestamp_ms[1]
    THEN Raise("SignatureError", "Invalid timestamp format", <<>>)
    ELSE IF OutsideTolerance(now, timestamp_ms[2], tolerance_ms)
    THEN RaiseText("SignatureError", "Timestamp outside tolerance window",
                   AgeText(Abs(now - timestamp_ms[2]), tolerance_ms), <<>>)
    ELSE
    LET secret == Lookup(get_secret_by_kid, kid)
        body_str == Utf8Decode(raw_body)
    IN
    IF secret = ResolverRaises THEN ResolverFault(kid)
    ELSE IF Falsy(secret)
    THEN RaiseText("SignatureError", "Secret not found for key ID", kid, <<kid>>)
    ELSE IF body_str = None
    THEN Raise("UnicodeDecodeError", "", <<kid>>)
    ELSE
    LET signed_payload == Utf8Encode(Item(parts, KeyT) \o Period \o body_str)
        key == Utf8Encode(secret)
        expected_signature == HmacSha256Hex(key, signed_payload)
        cmp == CompareDigest(expected_signature, signature)
    IN
    IF cmp = "TypeError"
    THEN Outcome("raise", "TypeError", "", <<kid>>, key, signed_payload)
    ELSE IF cmp = "differ"
    THEN Outcome("raise", "SignatureError", "Signature mismatch", <<kid>>,
                 key, signed_payload)
    ELSE Outcome("True", "", "", <<kid>>, key, signed_payload)

\* generate_signature: header is the returned str, exc is
\* "UnicodeDecodeError" when payload.decode raises
generate_signature(payload, secret, timestamp_ms, kid) ==
    LET payload_str == Utf8Decode(payload) IN
    IF payload_str = None
    THEN [exc |-> "UnicodeDecodeError", header |-> None]
    ELSE
    LET signed_payload == Utf8Encode(FormatInt(timestamp_ms) \o Period \o payload_str)
        signature == HmacSha256Hex(Utf8Encode(secret), signed_payload)
    IN [exc |-> "",
        header |-> PrefixT \o FormatInt(timestamp_ms)
                   \o CommaPrefixV1 \o signature
                   \o CommaPrefixKid \o kid]

(***************************************************************************)
(* brique-102 python-complete: molam_sdk/webhooks.py                       *)
(***************************************************************************)
\* variant: the default kid of generate_signature, "1"
DefaultKid_One == S(<<"1">>)

\* the kid of a header that carries none
DefaultKid == KeyV1

\* variant: the secret is resolved before the timestamp is looked at
verify_molam_signature_ResolveFirst(header, payload, get_secret_by_kid, tolerance_seconds, now) ==
    IF header = <<>>
    THEN Raise("WebhookVerificationError", "Missing Molam-Signature header", <<>>)
    ELSE
    LET segs == Split(header, Comma)
        pairs == [i \in 1..Len(segs) |-> SplitFirst(segs[i])]
    IN
    IF \E i \in 1..Len(pairs) : Len(pairs[i]) = 1
    THEN Raise("WebhookVerificationError", "Invalid signature header format", <<>>)
    ELSE
    LET parts == DictOf(pairs)
        timestamp_str == DictGet(parts, KeyT, None)
        signature == DictGet(parts, KeyV1, None)
        kid == DictGet(parts, KeyKid, DefaultKid)
    IN
    IF Falsy(timestamp_str) \/ Falsy(signature)
    THEN Raise("WebhookVerificationError", "Missing timestamp or signature in header", <<>>)
    ELSE
    LET secret == Lookup(get_secret_by_kid, kid)
        timestamp == ParseInt(timestamp_str)
    IN
    IF secret = ResolverRaises THEN ResolverFault(kid)
    ELSE IF Falsy(secret)
    THEN Raise("WebhookVerificationError", "Unknown key ID", <<kid>>)
    ELSE IF ~timestamp[1]
    THEN Raise("WebhookVerificationError", "Invalid timestamp format", <<kid>>)
    ELSE IF OutsideTolerance(now, timestamp[2], tolerance_seconds * 1000)
    THEN Raise("WebhookVerificationError", "Signature timestamp outside tolerance", <<kid>>)
    ELSE
    LET signed_payload == Utf8Encode(timestamp_str \o Period) \o payload
        key == Utf8Encode(secret)
        expected_signature == HmacSha256Hex(key, signed_payload)
        cmp == CompareDigest(expected_signature, signature)
    IN
    IF cmp = "TypeError"
    THEN Outcome("raise", "TypeError", "", <<kid>>, key, signed_payload)
    ELSE IF cmp = "differ"
    THEN Outcome("raise", "WebhookVerificationError", "Signature mismatch",
                 <<kid>>, key, signed_payload)
    ELSE Outcome("True", "", "", <<kid>>, key, signed_payload)

verify_molam_signature(header, payload, get_secret_by_kid, tolerance_seconds, now) ==
    IF header = <<>>
    THEN Raise("WebhookVerificationError", "Missing Molam-Signature header", <<>>)
    ELSE
    LET segs == Split(header, Comma)
        pairs == [i \in 1..Len(segs) |-> SplitFirst(segs[i])]
    IN
    IF \E i \in 1..Len(pairs) : Len(pairs[i]) = 1
    THEN Raise("WebhookVerificationError", "Invalid signature header format", <<>>)
    ELSE
    LET parts == DictOf(pairs)
        timestamp_str == DictGet(parts, KeyT, None)
        signature == DictGet(parts, KeyV1, None)
        kid == DictGet(parts, KeyKid, DefaultKid)
    IN
    IF Falsy(timestamp_str) \/ Falsy(signature)
    THEN Raise("WebhookVerificationError", "Missing timestamp or signature in header", <<>>)
    ELSE
    LET timestamp == ParseInt(timestamp_str) IN
    IF ~timestamp[1]
    THEN Raise("WebhookVerificationError", "Invalid timestamp format", <<>>)
    ELSE IF OutsideTolerance(now, timestamp[2], tolerance_seconds * 1000)
    THEN RaiseText("WebhookVerificationError", "Signature timestamp outside tolerance",
                   AgeText(Abs(now - timestamp[2]), tolerance_seconds * 1000), <<>>)
    ELSE
    LET secret == Lookup(get_secret_by_kid, kid) IN
    IF secret = ResolverRaises THEN ResolverFault(kid)
    ELSE IF Falsy(secret)
    THEN RaiseText("WebhookVerificationError", "Unknown key ID", kid, <<kid>>)
    ELSE
    LET signed_payload == Utf8Encode(timestamp_str \o Period) \o payload
        key == Utf8Encode(secret)
        expected_signature == HmacSha256Hex(key, signed_payload)
        cmp == CompareDigest(expected_signature, signature)
    IN
    IF cmp = "TypeError"
    THEN Outcome("raise", "TypeError", "", <<kid>>, key, signed_payload)
    ELSE IF cmp = "differ"
    THEN Outcome("raise", "WebhookVerificationError", "Signature mismatch",
                 <<kid>>, key, signed_payload)
    ELSE Outcome("True", "", "", <<kid>>, key, signed_payload)

(***************************************************************************)
(* brique-102 python-complete: examples/webhook_handler.py                 *)
(***************************************************************************)
\* tolerance of the example endpoint, in seconds
WEBHOOK_TOLERANCE_SECONDS == 300

\* verify_signature(payload, signature_header, secret) of the example
\* endpoint: KeyError and ValueError are caught and answered False
handler_verify_signature(payload, signature_header, secret, now) ==
    LET segs == Split(signature_header, Comma)
        pairs == [i \in 1..Len(segs) |-> SplitFirst(segs[i])]
        False == Outcome("False", "", "", <<>>, None, None)
        format_error == "Invalid signature header format: {e}"
    IN
    IF \E i \in 1..Len(pairs) : Len(pairs[i]) = 1
    THEN Logged(False, Line(format_error, <<>>))
    ELSE
    LET parts == DictOf(pairs) IN
    IF KeyT \notin DOMAIN parts
    THEN Logged(False, Line(format_error, <<KeyT>>))
    ELSE
    LET timestamp == ParseInt(parts[KeyT]) IN
    IF ~timestamp[1] THEN Logged(False, Line(format_error, <<parts[KeyT]>>))
    ELSE IF KeyV1 \notin DOMAIN parts
    THEN Logged(False, Line(format_error, <<KeyV1>>))
    ELSE IF OutsideTolerance(now, timestamp[2], WEBHOOK_TOLERANCE_SECONDS * 1000)
    THEN Logged(False, Line("Webhook timestamp outside tolerance: {age}ms",
                            <<FormatInt(Abs(now - timestamp[2]))>>))
    ELSE
    LET signed_payload == Utf8Encode(FormatInt(timestamp[2]) \o Period) \o payload
        key == Utf8Encode(secret)
        expected_signature == HmacSha256Hex(key, signed_payload)
        cmp == CompareDigest(expected_signature, parts[KeyV1])
        kid == DictGet(parts, KeyKid, KeyV1)
    IN
    IF cmp = "TypeError"
    THEN Outcome("raise", "TypeError", "", <<>>, key, signed_payload)
    ELSE IF cmp = "differ"
    THEN Logged(Outcome("False", "", "", <<>>, key, signed_payload),
                Line("Signature mismatch for kid={kid}", <<kid>>))
    ELSE Outcome("True", "", "", <<>>, key, signed_payload)


(***************************************************************************)
(* The example webhook endpoints.                                          *)
(***************************************************************************)
\* os.getenv(name, default) on the environment env; None is an unset name
Getenv(env, name, default) == IF env[name] = None THEN default ELSE env[name]

\* get_secret_by_kid of examples/webhook_receiver.py: the one secret of the
\* environment for every kid, SignatureError when it is not set
ReceiverResolver(env) ==
    LET secret == Getenv(env, "MOLAM_WEBHOOK_SECRET", <<>>)
    IN AnyKid :> (IF secret = <<>> THEN ResolverRaises ELSE secret)

\* get_secret_by_kid of examples/verify_webhook.py: a dict of the two
\* versioned secrets, "" for any other kid
VersionedResolver(env) ==
    (KeyV1 :> env["MOLAM_WEBHOOK_SECRET_V1"])
    @@ (S(<<"v", "2">>) :> env["MOLAM_WEBHOOK_SECRET_V2"])
    @@ (AnyKid :> <<>>)

\* MOLAM_WEBHOOK_SECRET of examples/webhook_handler.py
PlaceholderSecret ==
    S(<<"r", "e", "p", "l", "a", "c", "e", "_", "m", "e", "_", "w", "i", "t", "h",
        "_", "r", "e", "a", "l", "_", "s", "e", "c", "r", "e", "t">>)
HandlerSecret(env) == Getenv(env, "MOLAM_WEBHOOK_SECRET", PlaceholderSecret)

\* seq[:n]
Take(seq, n) == SubSeq(seq, 1, IF Len(seq) < n THEN Len(seq) ELSE n)

\* the request body that is the JSON text {}
EventBody == S(<<"{", "}">>)

\* json.loads / request.get_json of a body: TRUE when it yields a dict;
\* of the bodies over the bytes used here only {} is JSON
JsonLoads(raw_body) == raw_body = EventBody

\* the id of the event of a body: event.get("id") of {} is None
EventId(raw_body) == None

\* what an endpoint did with a request: the verification it ran, the
\* status it answered, whether the event reached the routing by type, the
\* lines it wrote, and the ids to remember as processed
Response(verified, status, dispatched, logs, seen) ==
    [verified |-> verified, status |-> status, dispatched |-> dispatched,
     logs |-> logs, seen |-> seen]

NotCalled == Outcome("", "", "", <<>>, None, None)

\* the one element of a set; {e(v) : v \in {x}} computes x once for all
\* the uses e makes of it
Only(set) == CHOOSE r \in set : TRUE

\* variant: the answer of verify_and_process is not looked at
verify_and_process_Ignored(signature, raw_body, v) == Response(v, 200, TRUE, <<>>, {})

\* brique-105 examples/webhook_receiver.py: what molam_webhook and
\* verify_and_process print and answer once verify_signature has ended as v
verify_and_process(signature, raw_body, v) ==
    LET received == << Line("Signature: {signature[:50]}...", <<Take(signature, 50)>>),
                       Line("Body size: {len(raw_body)} bytes", <<FormatInt(Len(raw_body))>>),
                       Line("Verifying signature...", <<>>) >>
    IN
    IF v.outcome = "raise" /\ v.exc = "SignatureError"
    THEN Response(v, 401, FALSE,
                  received \o <<Line("Signature error: {e}", <<v.text>>)>>, {})
    ELSE IF v.outcome = "raise"
    THEN Response(v, 401, FALSE, received \o <<Line("Unexpected error: {e}", <<>>)>>, {})
    ELSE IF ~JsonLoads(raw_body)
    THEN Response(v, 401, FALSE,
                  received \o <<Line("Signature verified", <<>>),
                                Line("Invalid JSON: {e}", <<>>)>>, {})
    ELSE Response(v, 200, TRUE,
                  received \o <<Line("Signature verified", <<>>),
                                Line("Processing event: {event_type}", <<>>),
                                Line("Unknown event type: {event_type}", <<>>)>>, {})

\* molam_webhook of examples/webhook_receiver.py; a request without the
\* header arrives as ""
receiver_molam_webhook(signature, raw_body, env, now) ==
    Only({ verify_and_process(signature, raw_body, v) :
           v \in {verify_signature(signature, raw_body, ReceiverResolver(env),
                                   5 * 60 * 1000, now)} })

\* brique-102 examples/webhook_handler.py: what molam_webhook logs and
\* answers once its verify_signature has ended as v
handler_respond(raw_body, processed, v) ==
    IF v.outcome = "raise"
    THEN Response(v, 401, FALSE, <<Line("Signature verification error: {e}", <<>>)>>, {})
    ELSE IF v.outcome = "False"
    THEN Response(v, 401, FALSE,
                  v.logged \o <<Line("Invalid webhook signature", <<>>)>>, {})
    ELSE IF ~JsonLoads(raw_body)
    THEN Response(v, 400, FALSE, <<Line("Failed to parse JSON: {e}", <<>>)>>, {})
    ELSE IF EventId(raw_body) \in processed
    THEN Response(v, 200, FALSE,
                  << Line("Duplicate event detected: {event_id}", <<>>),
                     Line("Ignoring duplicate event: {event_id}", <<>>) >>, {})
    ELSE Response(v, 200, TRUE,
                  << Line("Received webhook: type={event_type}, id={event_id}", <<>>),
                     Line("Unknown event type: {event_type}", <<>>) >>,
                  {EventId(raw_body)})

\* molam_webhook of examples/webhook_handler.py; signature is <<>> for a
\* request without the header, processed is processed_events
handler_molam_webhook(signature, raw_body, secret, processed, now) ==
    IF signature = <<>>
    THEN Response(NotCalled, 401, FALSE, <<Line("Missing Molam-Signature header", <<>>)>>, {})
    ELSE Only({ handler_respond(raw_body, processed, v) :
                v \in {handler_verify_signature(raw_body, signature, secret, now)} })

\* brique-102 examples/verify_webhook.py: what molam_webhook prints and
\* answers once MolamClient.verify_webhook_signature has ended as v
verify_webhook_respond(raw_body, v) ==
    IF v.outcome = "raise"
    THEN Response(v, 401, FALSE, <<Line("Webhook verification failed: {e}", <<v.text>>)>>, {})
    ELSE IF ~JsonLoads(raw_body)
    THEN Response(v, 400, FALSE, <<>>, {})
    ELSE Response(v, 200, TRUE, <<Line("Unhandled event type: {event_type}", <<>>)>>, {})

\* molam_webhook of examples/verify_webhook.py, which verifies with the
\* default tolerance of verify_molam_signature
verify_webhook_molam_webhook(signature, raw_body, env, now) ==
    IF signature = <<>>
    THEN Response(NotCalled, 401, FALSE, <<>>, {})
    ELSE Only({ verify_webhook_respond(raw_body, v) :
                v \in {verify_molam_signature(signature, raw_body,
                                              VersionedResolver(env), 300, now)} })

\* json.loads(payload.decode("utf-8")) of construct_event: the event, or
\* WebhookVerificationError(f"Invalid JSON payload: {e}")
ParseEvent(payload) ==
    IF Utf8Decode(payload) # None /\ JsonLoads(payload)
    THEN Outcome("event", "", "", <<>>, None, None)
    ELSE Raise("WebhookVerificationError", "Invalid JSON payload", <<>>)

construct_event_ParseFirst(payload, v) ==
    Only({ IF e.outcome = "raise" \/ v.outcome # "raise" THEN e ELSE v :
           e \in {ParseEvent(payload)} })

\* brique-102 construct_event once verify_molam_signature has ended as v:
\* its exception leaves construct_event, otherwise the payload is parsed
construct_event_parse(payload, v) ==
    IF v.outcome = "raise" THEN v ELSE [ParseEvent(payload) EXCEPT !.calls = v.calls]

\* construct_event(payload, signature_header, get_secret_by_kid)
construct_event(payload, signature_header, get_secret_by_kid, now) ==
    Only({ construct_event_parse(payload, v) :
           v \in {verify_molam_signature(signature_header, payload,
                                         get_secret_by_kid, 300, now)} })

(***************************************************************************)
(* The inputs the model draws from.                                        *)
(***************************************************************************)
\* bytes of a request body: "a", and the two bytes of U+00E9, each of
\* which alone is not valid UTF-8
BodyBytes == {97, 195, 169}

RECURSIVE SeqsUpTo(_, _)
SeqsUpTo(alphabet, n) ==
    IF n = 0 THEN {<<>>}
    ELSE LET shorter == SeqsUpTo(alphabet, n - 1)
         IN shorter \cup {<<x>> \o q : x \in alphabet, q \in {r \in shorter : Len(r) = n - 1}}

Bodies == SeqsUpTo(BodyBytes, MaxBodyLen)

\* webhook secrets
Secret1 == S(<<"s">>)
Secret2 == S(<<"w">>)
Secrets == {Secret1, Secret2}

\* key ids a sender signs under
Kids == {S(<<"1">>), S(<<"2">>), KeyV1}

\* tolerance_seconds of verify_molam_signature and its default
DefaultToleranceSeconds == 300
ToleranceSeconds == {0, DefaultToleranceSeconds}

\* tolerance_ms of verify_signature and its default
DefaultToleranceMs == 5 * 60 * 1000
ToleranceMs == {0, DefaultToleranceMs}

\* timestamps around the clock: on it, and on and just beyond both edges
\* of the default window
Timestamps ==
    {ClockMs + d : d \in {0, DefaultToleranceMs, 0 - DefaultToleranceMs,
                          DefaultToleranceMs + 1, 0 - (DefaultToleranceMs + 1)}}

\* tables of the secret resolver: one with each kid's own secret; one
\* that has another secret for the default kid, a kid holding "=", the
\* empty str for kid 1 and nothing for kid 2
Resolvers ==
    { (S(<<"1">>) :> Secret1) @@ (S(<<"2">>) :> Secret2) @@ (KeyV1 :> Secret1),
      (KeyV1 :> Secret2) @@ (S(<<"a", "=", "b">>) :> Secret1) @@ (S(<<"1">>) :> <<>>) }

\* the digest the platform puts in the header: HMAC over the t value, a
\* period and the body bytes
PlatformDigest(secret, t_value, body) ==
    HmacSha256Hex(Utf8Encode(secret), Utf8Encode(t_value \o Period) \o body)

\* t values of a header written by hand: fresh, stale, fresh with a
\* leading zero, fresh with a leading blank, not a number, empty
ForgedTValues ==
    { FormatInt(ClockMs), FormatInt(ClockMs - (DefaultToleranceMs + 1)),
      S(<<"0">>) \o FormatInt(ClockMs), S(<<" ">>) \o FormatInt(ClockMs),
      S(<<"x">>), <<>> }

\* how the v1 value of such a header is made
ForgedV1Kinds == {"signed1", "signed2", "hex", "empty", "nonascii"}

ForgedV1(kind, t_value, body) ==
    CASE kind = "signed1" -> PlatformDigest(Secret1, t_value, body)
      [] kind = "signed2" -> PlatformDigest(Secret2, t_value, body)
      [] kind = "hex" -> S(<<"a", "b", "c">>)
      [] kind = "empty" -> <<>>
      [] kind = "nonascii" -> S(<<"e'">>)

ForgedKids == {S(<<"1">>), S(<<"2">>), S(<<"a", "=", "b">>), <<>>}

\* a further segment: an unknown key, a second t, no "="
ExtraSegments ==
    { S(<<"x", "=", "y">>), S(<<"t", "=", "x">>), S(<<"j", "u", "n", "k">>) }

ForgedBodies == {<<97>>, <<195>>}

\* an environment that sets none of the secrets
NoEnviron ==
    [name \in {"MOLAM_WEBHOOK_SECRET", "MOLAM_WEBHOOK_SECRET_V1",
                "MOLAM_WEBHOOK_SECRET_V2"} |-> None]

\* environments of a receiver: no secret set; each variable set
Environs ==
    { NoEnviron,
      [NoEnviron EXCEPT !["MOLAM_WEBHOOK_SECRET"] = Secret1,
                        !["MOLAM_WEBHOOK_SECRET_V1"] = Secret1,
                        !["MOLAM_WEBHOOK_SECRET_V2"] = Secret2] }

\* key ids the platform signs events under
EventKids == {S(<<"1">>), KeyV1, S(<<"v", "2">>)}

\* the segments of a header written by hand; None leaves a field out
ForgedSegments(t_value, v1, kid, extra) ==
    (IF t_value = None THEN <<>> ELSE <<PrefixT \o t_value>>)
    \o (IF v1 = None THEN <<>> ELSE <<PrefixV1 \o v1>>)
    \o (IF kid = None THEN <<>> ELSE <<PrefixKid \o kid>>)
    \o (IF extra = None THEN <<>> ELSE <<extra>>)

Reverse(seq) == [i \in 1..Len(seq) |-> seq[Len(seq) + 1 - i]]

(***************************************************************************)
(* State.                                                                  *)
(***************************************************************************)
VARIABLES
    now_ms,     \* int(time.time() * 1000)
    registry,   \* the table behind get_secret_by_kid
    sig,        \* what the sender signed, when the header was generated
    wire,       \* the header and the body that reach the receiver
    result,     \* the outcome of the last call
    pc,         \* "start", "wire" (a request is in flight) or "done"
    environ,    \* os.environ: the webhook secrets by variable name
    processed_events, \* the ids the webhook_handler endpoint has seen
    config,     \* Config.webhook_secret of the brique-105 MolamClient
    http,       \* what a webhook endpoint answered and printed
    round,      \* the number of the request being handled
    sent,       \* the last outbound call of an SDK client
    db,         \* the rows of table server_idempotency
    handlers,   \* the requests being served through IdempotencyStore
    got,        \* the last get_cached_response call and what it returned
    stored,     \* the last store_response arguments per key and route
    cb,         \* the circuit breaker of a MolamSyncClient
    net,        \* the requests a client call has handed to the transport
    deliveries  \* the webhook deliveries an endpoint is serving

webhook_vars == <<now_ms, registry, sig, wire, result, pc>>
receiver_vars == <<environ, processed_events, config, http, round>>
store_vars == <<db, handlers, got, stored>>
transport_vars == <<cb, net, deliveries>>
vars == <<webhook_vars, receiver_vars, sent, store_vars, transport_vars>>

NoSig == [made |-> FALSE, body |-> <<>>, secret |-> <<>>, ts |-> 0, kid |-> <<>>]
NoWire == [header |-> None, body |-> <<>>]
NoResult ==
    [impl |-> "", tol |-> 0] @@ Outcome("", "", "", <<>>, None, None)

\* no endpoint has answered; no client has sent; the store is not in use
NoHttp == [endpoint |-> "", status |-> 0, dispatched |-> FALSE, logs |-> <<>>]
NoSent == [client |-> "", op |-> "", method |-> "", supplied |-> None,
           outcome |-> "", exc |-> "", reason |-> "", header |-> None,
           value |-> None, rand |-> <<>>]

ReceiverIdle ==
    /\ environ = NoEnviron
    /\ processed_events = {}
    /\ config = <<>>
    /\ http = NoHttp
    /\ round = 1

ClientIdle == sent = NoSent

StoreIdle ==
    /\ db = {}
    /\ handlers = <<>>
    /\ got = <<>>
    /\ stored = <<>>

TransportIdle ==
    /\ cb = <<>>
    /\ net = <<>>
    /\ deliveries = <<>>

Init ==
    /\ now_ms = ClockMs
    /\ registry \in Resolvers
    /\ sig = NoSig
    /\ wire = NoWire
    /\ result = NoResult
    /\ pc = "start"
    /\ ReceiverIdle
    /\ ClientIdle
    /\ StoreIdle
    /\ TransportIdle

(***************************************************************************)
(* The sender and the network.                                             *)
(***************************************************************************)
\* the sender calls generate_signature(payload, secret, timestamp_ms, kid)
GenerateSignature ==
    /\ pc = "start"
    /\ \E payload \in Bodies, secret \in Secrets, timestamp_ms \in Timestamps, kid \in Kids :
       LET g == generate_signature(payload, secret, timestamp_ms, kid) IN
       /\ sig' = [made |-> TRUE, body |-> payload, secret |-> secret,
                  ts |-> timestamp_ms, kid |-> kid]
       /\ IF g.exc # ""
          THEN /\ wire' = wire
               /\ result' = [impl |-> "generate_signature", tol |-> 0]
                            @@ Raise(g.exc, "", <<>>)
               /\ pc' = "done"
          ELSE /\ wire' = [header |-> g.header, body |-> payload]
               /\ result' = result
               /\ pc' = "wire"
    /\ UNCHANGED <<now_ms, registry>>
    /\ UNCHANGED <<receiver_vars, sent, store_vars, transport_vars>>

\* the body is replaced on the way
TamperBody ==
    /\ pc = "wire"
    /\ sig.made
    /\ wire.body = sig.body
    /\ \E body \in Bodies \ {wire.body} : wire' = [wire EXCEPT !.body = body]
    /\ UNCHANGED <<now_ms, registry, sig, result, pc>>
    /\ UNCHANGED <<receiver_vars, sent, store_vars, transport_vars>>

\* a header written by hand arrives
ForgeHeader ==
    /\ pc = "start"
    /\ \E t_value \in ForgedTValues \cup {None},
          v1_kind \in ForgedV1Kinds \cup {"absent"},
          kid \in ForgedKids \cup {None},
          extra \in ExtraSegments \cup {None},
          reversed \in BOOLEAN,
          body \in ForgedBodies :
       LET v1 == IF v1_kind = "absent" THEN None
                 ELSE ForgedV1(v1_kind, IF t_value = None THEN <<>> ELSE t_value, body)
           segs == ForgedSegments(t_value, v1, kid, extra)
           ordered == IF reversed THEN Reverse(segs) ELSE segs
       IN wire' = [header |-> Join(ordered), body |-> body]
    /\ pc' = "wire"
    /\ UNCHANGED <<now_ms, registry, sig, result>>
    /\ UNCHANGED <<receiver_vars, sent, store_vars, transport_vars>>

(***************************************************************************)
(* The receiver.                                                           *)
(***************************************************************************)
\* brique-105 verify_signature(header, raw_body, get_secret_by_kid, tolerance_ms)
VerifySignature ==
    /\ pc = "wire"
    /\ \E tolerance_ms \in ToleranceMs :
          result' = [impl |-> "verify_signature", tol |-> tolerance_ms]
                    @@ verify_signature(wire.header, wire.body, registry,
                                        tolerance_ms, now_ms)
    /\ pc' = "done"
    /\ UNCHANGED <<now_ms, registry, sig, wire>>
    /\ UNCHANGED <<receiver_vars, sent, store_vars, transport_vars>>

\* brique-102 verify_molam_signature(header, payload, get_secret_by_kid, tolerance_seconds)
VerifyMolamSignature ==
    /\ pc = "wire"
    /\ \E tolerance_seconds \in ToleranceSeconds :
          result' = [impl |-> "verify_molam_signature", tol |-> tolerance_seconds * 1000]
                    @@ verify_molam_signature(wire.header, wire.body, registry,
                                              tolerance_seconds, now_ms)
    /\ pc' = "done"
    /\ UNCHANGED <<now_ms, registry, sig, wire>>
    /\ UNCHANGED <<receiver_vars, sent, store_vars, transport_vars>>

\* the example endpoint's verify_signature(payload, signature_header, secret)
HandlerVerifySignature ==
    /\ pc = "wire"
    /\ \E secret \in Secrets :
          result' = [impl |-> "handler_verify_signature",
                     tol |-> WEBHOOK_TOLERANCE_SECONDS * 1000]
                    @@ handler_verify_signature(wire.body, wire.header, secret, now_ms)
    /\ pc' = "done"
    /\ UNCHANGED <<now_ms, registry, sig, wire>>
    /\ UNCHANGED <<receiver_vars, sent, store_vars, transport_vars>>

(***************************************************************************)
(* Requests to the example endpoints.                                      *)
(***************************************************************************)
\* the platform signs the event body and sends it: the wire header
\* t=<ms>,v1=<hex>,kid=<kid> over <t>.<body bytes>
PlatformSend ==
    /\ pc = "start"
    /\ \E secret \in Secrets, timestamp_ms \in Timestamps, kid \in EventKids :
       LET t_value == FormatInt(timestamp_ms)
           v1 == PlatformDigest(secret, t_value, EventBody)
       IN /\ sig' = [made |-> TRUE, body |-> EventBody, secret |-> secret,
                     ts |-> timestamp_ms, kid |-> kid]
          /\ wire' = [header |-> PrefixT \o t_value \o CommaPrefixV1 \o v1
                                 \o CommaPrefixKid \o kid,
                      body |-> EventBody]
    /\ pc' = "wire"
    /\ UNCHANGED <<now_ms, registry, result>>
    /\ UNCHANGED <<receiver_vars, sent, store_vars, transport_vars>>

\* POST /webhook/molam of examples/webhook_receiver.py
ReceiverWebhook ==
    /\ pc = "wire"
    /\ \E r \in {receiver_molam_webhook(wire.header, wire.body, environ, now_ms)} :
       /\ result' = [impl |-> "verify_signature", tol |-> 5 * 60 * 1000] @@ r.verified
       /\ http' = [endpoint |-> "webhook_receiver", status |-> r.status,
                   dispatched |-> r.dispatched, logs |-> r.logs]
    /\ pc' = "done"
    /\ UNCHANGED <<now_ms, registry, sig, wire>>
    /\ UNCHANGED <<environ, processed_events, config, round, sent, store_vars, transport_vars>>

\* POST /webhook/molam of examples/webhook_handler.py
HandlerWebhook ==
    /\ pc = "wire"
    /\ \E r \in {handler_molam_webhook(wire.header, wire.body, HandlerSecret(environ),
                                        processed_events, now_ms)} :
       /\ result' = [impl |-> "handler_verify_signature",
                     tol |-> WEBHOOK_TOLERANCE_SECONDS * 1000] @@ r.verified
       /\ http' = [endpoint |-> "webhook_handler", status |-> r.status,
                   dispatched |-> r.dispatched, logs |-> r.logs]
       /\ processed_events' = processed_events \cup r.seen
    /\ pc' = "done"
    /\ UNCHANGED <<now_ms, registry, sig, wire>>
    /\ UNCHANGED <<environ, config, round, sent, store_vars, transport_vars>>

\* POST /webhooks/molam of examples/verify_webhook.py
VerifyWebhook ==
    /\ pc = "wire"
    /\ \E r \in {verify_webhook_molam_webhook(wire.header, wire.body, environ, now_ms)} :
       /\ result' = [impl |-> "verify_molam_signature",
                     tol |-> DefaultToleranceSeconds * 1000] @@ r.verified
       /\ http' = [endpoint |-> "verify_webhook", status |-> r.status,
                   dispatched |-> r.dispatched, logs |-> r.logs]
    /\ pc' = "done"
    /\ UNCHANGED <<now_ms, registry, sig, wire>>
    /\ UNCHANGED <<environ, processed_events, config, round, sent, store_vars, transport_vars>>

\* construct_event(payload, header, get_secret_by_kid) on the request
ConstructEvent ==
    /\ pc = "wire"
    /\ result' = [impl |-> "construct_event", tol |-> DefaultToleranceSeconds * 1000]
                 @@ construct_event(wire.body, wire.header, registry, now_ms)
    /\ pc' = "done"
    /\ UNCHANGED <<now_ms, registry, sig, wire>>
    /\ UNCHANGED <<receiver_vars, sent, store_vars, transport_vars>>

\* a receiver process: its environment, and for direct calls of the
\* verifiers the resolver of examples/webhook_receiver.py
EndpointInit ==
    /\ now_ms = ClockMs
    /\ environ \in Environs
    /\ registry = ReceiverResolver(environ)
    /\ sig = NoSig
    /\ wire = NoWire
    /\ result = NoResult
    /\ pc = "start"
    /\ processed_events = {}
    /\ config = <<>>
    /\ http = NoHttp
    /\ round = 1
    /\ ClientIdle
    /\ StoreIdle
    /\ TransportIdle

EndpointNext ==
    \/ PlatformSend
    \/ ForgeHeader
    \/ VerifySignature
    \/ VerifyMolamSignature
    \/ ReceiverWebhook
    \/ HandlerWebhook
    \/ VerifyWebhook
    \/ ConstructEvent

EndpointSpec == EndpointInit /\ [][EndpointNext]_vars

(***************************************************************************)
(* Secret rotation between requests.                                       *)
(***************************************************************************)
\* the number of requests a receiver handles
MaxRounds == 2

\* Config.__init__: webhook_secret or os.getenv("MOLAM_WEBHOOK_SECRET", "")
ConfigWebhookSecret(webhook_secret, env) ==
    IF Falsy(webhook_secret) THEN Getenv(env, "MOLAM_WEBHOOK_SECRET", <<>>)
    ELSE webhook_secret

\* brique-105 MolamClient.verify_webhook_signature: verify_signature with
\* a resolver that returns config.webhook_secret for every kid, and the
\* default tolerance
client_verify_webhook_signature(signature_header, raw_body, webhook_secret, now) ==
    verify_signature(signature_header, raw_body, AnyKid :> webhook_secret,
                     DefaultToleranceMs, now)

ClientVerifyWebhookSignature ==
    /\ pc = "wire"
    /\ result' = [impl |-> "verify_webhook_signature", tol |-> DefaultToleranceMs]
                 @@ client_verify_webhook_signature(wire.header, wire.body, config, now_ms)
    /\ pc' = "done"
    /\ UNCHANGED <<now_ms, registry, sig, wire>>
    /\ UNCHANGED <<receiver_vars, sent, store_vars, transport_vars>>

\* the secret stored for a kid is replaced; the receiver goes on to its
\* next request
RotateRegistry ==
    /\ pc = "done"
    /\ round < MaxRounds
    /\ \E kid \in DOMAIN registry :
          \E secret \in Secrets \ {registry[kid]} :
              registry' = [registry EXCEPT ![kid] = secret]
    /\ round' = round + 1
    /\ sig' = NoSig /\ wire' = NoWire /\ result' = NoResult /\ pc' = "start"
    /\ UNCHANGED <<now_ms, environ, processed_events, config, http, sent, store_vars, transport_vars>>

\* MOLAM_WEBHOOK_SECRET is given another value; the receiver goes on to
\* its next request
RotateEnviron ==
    /\ pc = "done"
    /\ round < MaxRounds
    /\ \E secret \in Secrets \ {environ["MOLAM_WEBHOOK_SECRET"]} :
          environ' = [environ EXCEPT !["MOLAM_WEBHOOK_SECRET"] = secret]
    /\ round' = round + 1
    /\ sig' = NoSig /\ wire' = NoWire /\ result' = NoResult /\ pc' = "start"
    /\ UNCHANGED <<now_ms, registry, processed_events, config, http, sent, store_vars, transport_vars>>

\* a receiver with a resolver table and a MolamClient whose Config was
\* built from the environment
RotationInit ==
    /\ now_ms = ClockMs
    /\ registry \in Resolvers
    /\ environ \in Environs \ {NoEnviron}
    /\ config = ConfigWebhookSecret(None, environ)
    /\ sig = NoSig
    /\ wire = NoWire
    /\ result = NoResult
    /\ pc = "start"
    /\ processed_events = {}
    /\ http = NoHttp
    /\ round = 1
    /\ ClientIdle
    /\ StoreIdle
    /\ TransportIdle

RotationNext ==
    \/ PlatformSend
    \/ VerifySignature
    \/ VerifyMolamSignature
    \/ ClientVerifyWebhookSignature
    \/ RotateRegistry
    \/ RotateEnviron

RotationSpec == RotationInit /\ [][RotationNext]_vars

(***************************************************************************)
(* Idempotency keys and the outbound calls of the SDK clients.             *)
(***************************************************************************)
\* len(provided) > 128
MaxKeyLength == 128

Repeat(x, n) == [i \in 1..n |-> x]

\* the bytes the system's random source hands out
RandomBytes(n) == {Repeat(0, n), Repeat(171, n)}

\* secrets.token_hex(nbytes) on the drawn bytes
token_hex(bytes) == HexBytes(bytes)

\* uuid.uuid4() on 16 drawn bytes: version 4, RFC 4122 variant
uuid4(bytes) ==
    [i \in 1..16 |-> IF i = 7 THEN 64 + (bytes[i] % 16)
                     ELSE IF i = 9 THEN 128 + (bytes[i] % 64)
                     ELSE bytes[i]]

\* uuid.hex and str(uuid)
UuidHex(u) == HexBytes(u)
UuidStr(u) ==
    LET h == HexBytes(u)
    IN SubSeq(h, 1, 8) \o S(<<"-">>) \o SubSeq(h, 9, 12) \o S(<<"-">>)
       \o SubSeq(h, 13, 16) \o S(<<"-">>) \o SubSeq(h, 17, 20) \o S(<<"-">>)
       \o SubSeq(h, 21, 32)

\* what a key function or a client call did: the value it returned, or the
\* exception it raised; header is the Idempotency-Key of the request
\* handed to the transport, None when the request carries none
KeyReturn(value) ==
    [outcome |-> "return", exc |-> "", reason |-> "", value |-> value, header |-> None]
KeyRaise(exc, reason) ==
    [outcome |-> "raise", exc |-> exc, reason |-> reason, value |-> None, header |-> None]
Send(header) ==
    [outcome |-> "sent", exc |-> "", reason |-> "", value |-> None, header |-> header]

TooLong_Inclusive(provided) == Len(provided) >= MaxKeyLength

\* len(provided) > 128
TooLong(provided) == Len(provided) > MaxKeyLength

\* brique-105 make_idempotency_key(provided) at clock ts (ms), with the
\* drawn random bytes
make_idempotency_key(provided, ts, bytes) ==
    IF ~Falsy(provided) THEN
        IF TooLong(provided)
        THEN KeyRaise("ValueError", "Idempotency key too long (max 128 characters)")
        ELSE KeyReturn(provided)
    ELSE KeyReturn(S(<<"m", "o", "l", "a", "m", "-">>) \o FormatInt(ts)
                   \o S(<<"-">>) \o token_hex(bytes))

\* brique-105 MolamClient._request up to http.send: the header is set
\* only for a truthy idempotency_key
client_request(idempotency_key, ts, bytes) ==
    IF ~Falsy(idempotency_key) THEN
        Only({ IF k.outcome = "raise" THEN k ELSE Send(k.value) :
               k \in {make_idempotency_key(idempotency_key, ts, bytes)} })
    ELSE Send(None)

\* the calls of brique-105 MolamClient and the HTTP method of each; only
\* the POST calls take an idempotency_key
ClientOps ==
    [create_payment_intent |-> "POST", confirm_payment_intent |-> "POST",
     cancel_payment_intent |-> "POST", create_refund |-> "POST",
     create_payout |-> "POST", retrieve_payment_intent |-> "GET",
     list_payment_intents |-> "GET", retrieve_refund |-> "GET",
     retrieve_payout |-> "GET"]

\* brique-102 python-complete MolamClient.post up to session.post
complete_post(idempotency_key) ==
    IF ~Falsy(idempotency_key) THEN Send(idempotency_key) ELSE Send(None)

\* the key each call of brique-102 python-complete MolamClient makes up
\* when idempotency_key is None
CompleteDefaultKey(op, intent_id, u) ==
    CASE op = "create_payment_intent" -> S(<<"p", "i", "-">>) \o UuidHex(u)
      [] op = "confirm_payment_intent" ->
             S(<<"c", "o", "n", "f", "i", "r", "m", "-">>) \o intent_id
             \o S(<<"-">>) \o Take(UuidHex(u), 8)
      [] op = "cancel_payment_intent" ->
             S(<<"c", "a", "n", "c", "e", "l", "-">>) \o intent_id
             \o S(<<"-">>) \o Take(UuidHex(u), 8)
      [] op = "create_refund" -> S(<<"r", "e", "f", "u", "n", "d", "-">>) \o UuidHex(u)
      [] op = "create_payout" -> S(<<"p", "a", "y", "o", "u", "t", "-">>) \o UuidHex(u)
      [] op = "create_merchant_onboarding" ->
             S(<<"o", "n", "b", "o", "a", "r", "d", "-">>) \o UuidHex(u)

CompleteOps ==
    {"create_payment_intent", "confirm_payment_intent", "cancel_payment_intent",
     "create_refund", "create_payout", "create_merchant_onboarding"}

\* a POST call of brique-102 python-complete MolamClient
complete_call(op, intent_id, idempotency_key, u) ==
    complete_post(IF idempotency_key = None
                  THEN CompleteDefaultKey(op, intent_id, u)
                  ELSE idempotency_key)

\* extra_headers of brique-102 python HttpClient: None, or a dict that
\* may hold an Idempotency-Key
NoHeaders == [dict |-> FALSE, idem |-> None]
Headers(idem) == [dict |-> TRUE, idem |-> idem]

\* brique-102 python HttpClient._request_with_retry up to the first
\* session.request: headers = extra_headers or {}, and a uuid4 key when
\* the dict holds no Idempotency-Key
http_request_with_retry(extra_headers, u) ==
    IF extra_headers.dict /\ extra_headers.idem # None
    THEN Send(extra_headers.idem)
    ELSE Send(UuidStr(u))

\* the keys a caller supplies: none, the empty string, a short one, and
\* keys around the length limit
SuppliedKeys ==
    {None, <<>>, S(<<"k">>), Repeat(Ord("a"), MaxKeyLength - 1),
     Repeat(Ord("a"), MaxKeyLength), Repeat(Ord("b"), MaxKeyLength),
     Repeat(Ord("a"), MaxKeyLength + 1)}

IntentIds == {S(<<"p", "i", "_", "1">>)}

Call(client, op, method, supplied, bytes, r) ==
    [client |-> client, op |-> op, method |-> method, supplied |-> supplied,
     rand |-> bytes] @@ r

\* make_idempotency_key called directly
MakeIdempotencyKey ==
    /\ pc = "start"
    /\ \E provided \in SuppliedKeys, bytes \in RandomBytes(12) :
          sent' = Call("make_idempotency_key", "", "", provided, bytes,
                       make_idempotency_key(provided, now_ms, bytes))
    /\ pc' = "done"
    /\ UNCHANGED <<now_ms, registry, sig, wire, result, receiver_vars, store_vars, transport_vars>>

\* a call of brique-105 MolamClient
ClientRequest ==
    /\ pc = "start"
    /\ \E op \in DOMAIN ClientOps, key \in SuppliedKeys, bytes \in RandomBytes(12) :
          /\ ClientOps[op] = "GET" => key = None
          /\ sent' = Call("brique-105", op, ClientOps[op], key, bytes,
                          client_request(key, now_ms, bytes))
    /\ pc' = "done"
    /\ UNCHANGED <<now_ms, registry, sig, wire, result, receiver_vars, store_vars, transport_vars>>

\* a POST call of brique-102 python-complete MolamClient
CompleteCall ==
    /\ pc = "start"
    /\ \E op \in CompleteOps, intent_id \in IntentIds, key \in SuppliedKeys,
          bytes \in RandomBytes(16) :
          sent' = Call("python-complete", op, "POST", key, bytes,
                       complete_call(op, intent_id, key, uuid4(bytes)))
    /\ pc' = "done"
    /\ UNCHANGED <<now_ms, registry, sig, wire, result, receiver_vars, store_vars, transport_vars>>

\* a request of brique-102 python HttpClient
HttpClientRequest ==
    /\ pc = "start"
    /\ \E method \in {"GET", "POST", "PUT", "DELETE"},
          extra_headers \in {NoHeaders} \cup {Headers(k) : k \in SuppliedKeys},
          bytes \in RandomBytes(16) :
          sent' = Call("python", "_request_with_retry", method, extra_headers.idem,
                       bytes, http_request_with_retry(extra_headers, uuid4(bytes)))
    /\ pc' = "done"
    /\ UNCHANGED <<now_ms, registry, sig, wire, result, receiver_vars, store_vars, transport_vars>>

ClientInit ==
    /\ now_ms \in {ClockMs, ClockMs + 1}
    /\ registry = <<>>
    /\ sig = NoSig
    /\ wire = NoWire
    /\ result = NoResult
    /\ pc = "start"
    /\ ReceiverIdle
    /\ ClientIdle
    /\ StoreIdle
    /\ TransportIdle

ClientNext ==
    \/ MakeIdempotencyKey
    \/ ClientRequest
    \/ CompleteCall
    \/ HttpClientRequest

ClientSpec == ClientInit /\ [][ClientNext]_vars

(***************************************************************************)
(* IdempotencyStore over table server_idempotency.  ON CONFLICT            *)
(* (idempotency_key) presupposes that the key alone is unique in the       *)
(* table, so the table holds at most one row per key.                      *)
(***************************************************************************)
\* SELECT response, status ... WHERE idempotency_key = %s AND route = %s;
\* fetchone(): the dict of the row, written <<response, status>>, or None
get_cached_response(table, idempotency_key, route) ==
    IF \E row \in table : row.idempotency_key = idempotency_key /\ row.route = route
    THEN Only({ <<row.response, row.status>> :
                row \in {x \in table : x.idempotency_key = idempotency_key
                                        /\ x.route = route} })
    ELSE None

\* INSERT ... ON CONFLICT (idempotency_key) DO UPDATE SET response =
\* EXCLUDED.response, status = EXCLUDED.status; commit: the row of the key
\* keeps its route
store_response(table, idempotency_key, route, response, status) ==
    IF \E row \in table : row.idempotency_key = idempotency_key
    THEN { IF row.idempotency_key = idempotency_key
           THEN [row EXCEPT !.response = response, !.status = status]
           ELSE row : row \in table }
    ELSE table \cup {[idempotency_key |-> idempotency_key, route |-> route,
                       response |-> response, status |-> status]}

\* the requests: idempotency key and route
Requests == {"k1", "k2"} \X {"/payment_intents", "/refunds"}

\* the responses of an operation, with the status stored for each
Responses == {<<"A", "completed">>, <<"B", "failed">>}

Handlers == {"h1", "h2"}

\* one store_response call has completed
StoreResponse ==
    /\ \E req \in Requests, resp \in Responses :
          /\ db' = store_response(db, req[1], req[2], resp[1], resp[2])
          /\ stored' = [stored EXCEPT ![req] = resp]
    /\ got' = <<>>
    /\ UNCHANGED <<webhook_vars, receiver_vars, sent, transport_vars, handlers>>

\* one get_cached_response call
GetCachedResponse ==
    /\ \E req \in Requests :
          got' = <<req, get_cached_response(db, req[1], req[2])>>
    /\ UNCHANGED <<webhook_vars, receiver_vars, sent, transport_vars, db, handlers, stored>>

StoreInit ==
    /\ now_ms = ClockMs
    /\ registry = <<>>
    /\ sig = NoSig
    /\ wire = NoWire
    /\ result = NoResult
    /\ pc = "start"
    /\ ReceiverIdle
    /\ ClientIdle
    /\ db = {}
    /\ handlers = <<>>
    /\ got = <<>>
    /\ stored = [req \in Requests |-> None]
    /\ TransportIdle

StoreNext ==
    \/ StoreResponse
    \/ GetCachedResponse

StoreSpec == StoreInit /\ [][StoreNext]_vars

\* a request handler looks up the cached response of its request
HandlerLookup ==
    /\ \E h \in Handlers :
          /\ handlers[h].at = "lookup"
          /\ \E cached \in {get_cached_response(db, handlers[h].req[1],
                                                  handlers[h].req[2])} :
                handlers' = [handlers EXCEPT ![h].cached = cached,
                                 ![h].at = IF cached = None THEN "execute" ELSE "done"]
    /\ UNCHANGED <<webhook_vars, receiver_vars, sent, transport_vars, db, got, stored>>

\* it found none and executes the operation
HandlerExecute ==
    /\ \E h \in Handlers, resp \in Responses :
          /\ handlers[h].at = "execute"
          /\ handlers' = [handlers EXCEPT ![h].executed = TRUE,
                               ![h].cached = resp, ![h].at = "store"]
    /\ UNCHANGED <<webhook_vars, receiver_vars, sent, transport_vars, db, got, stored>>

\* it stores the response of the operation
HandlerStore ==
    /\ \E h \in Handlers :
          /\ handlers[h].at = "store"
          /\ db' = store_response(db, handlers[h].req[1], handlers[h].req[2],
                                  handlers[h].cached[1], handlers[h].cached[2])
          /\ stored' = [stored EXCEPT ![handlers[h].req] = handlers[h].cached]
          /\ handlers' = [handlers EXCEPT ![h].at = "done"]
    /\ UNCHANGED <<webhook_vars, receiver_vars, sent, transport_vars, got>>

\* requests arrive at the handlers of one service; nothing is stored yet
HandlerInit ==
    /\ now_ms = ClockMs
    /\ registry = <<>>
    /\ sig = NoSig
    /\ wire = NoWire
    /\ result = NoResult
    /\ pc = "start"
    /\ ReceiverIdle
    /\ ClientIdle
    /\ db = {}
    /\ handlers \in [Handlers -> {[req |-> req, at |-> "lookup", cached |-> None,
                                    executed |-> FALSE] : req \in Requests}]
    /\ got = <<>>
    /\ stored = [req \in Requests |-> None]
    /\ TransportIdle

HandlerNext ==
    \/ HandlerLookup
    \/ HandlerExecute
    \/ HandlerStore

HandlerSpec == HandlerInit /\ [][HandlerNext]_vars

(***************************************************************************)
(* MolamSyncClient and its circuit breaker.  The breaker is                *)
(* pybreaker.CircuitBreaker, which the repository only configures and      *)
(* tests: its state machine is written from tests/unit/                    *)
(* test_circuit_breaker.py and the docstrings of cb.py and sync_client.py. *)
(***************************************************************************)
\* the calls one client makes
MaxCalls == 5
\* the seconds the clock advances
MaxTicks == 3

\* create_circuit_breaker(name, fail_max, reset_timeout)
create_circuit_breaker(fail_max, reset_timeout) ==
    [fail_max |-> fail_max, reset_timeout |-> reset_timeout, state |-> "closed",
     fail_counter |-> 0, opened_at |-> 0]

\* the breaker b after the wrapped function was invoked and failed
BreakerFailure(b, now) ==
    IF b.state = "half-open" \/ b.fail_counter + 1 >= b.fail_max
    THEN [b EXCEPT !.state = "open", !.fail_counter = b.fail_counter + 1,
                   !.opened_at = now]
    ELSE [b EXCEPT !.fail_counter = b.fail_counter + 1]

\* cb.call(func) at time now, where func raises APIError when fails: the
\* breaker afterwards, whether func was invoked, and the exception raised
cb_call(b, fails, now) ==
    IF b.state = "open" /\ now < b.opened_at + b.reset_timeout * 1000
    THEN [cb |-> b, invoked |-> FALSE, exc |-> "CircuitBreakerError"]
    ELSE Only({ IF ~fails
                THEN [cb |-> [trial EXCEPT !.state = "closed", !.fail_counter = 0],
                      invoked |-> TRUE, exc |-> ""]
                ELSE [cb |-> BreakerFailure(trial, now), invoked |-> TRUE,
                      exc |-> IF BreakerFailure(trial, now).state = "open"
                              THEN "CircuitBreakerError" ELSE "APIError"]
              : trial \in {IF b.state = "open"
                           THEN [b EXCEPT !.state = "half-open"] ELSE b} })

sync_client_call_Direct(b, fails, now) ==
    [cb |-> b, invoked |-> TRUE, exc |-> IF fails THEN "APIError" ELSE ""]

\* a method of MolamSyncClient: self.cb.call(self.client.<method>, ...);
\* the exception is recorded in the metrics and raised again
sync_client_call(b, fails, now) == cb_call(b, fails, now)

\* MolamSyncClient.create_payment_intent, retrieve_payment_intent,
\* confirm_payment_intent, create_refund or create_payout; the request,
\* when it is sent, succeeds or fails
SyncClientCall ==
    /\ Len(net) < MaxCalls
    /\ \E fails \in BOOLEAN :
       \E r \in {sync_client_call(cb, fails, now_ms)} :
          /\ cb' = r.cb
          /\ net' = Append(net, [before |-> cb, at |-> now_ms, fails |-> fails,
                                  invoked |-> r.invoked, exc |-> r.exc,
                                  after |-> r.cb.state])
    /\ UNCHANGED <<now_ms, registry, sig, wire, result, pc, receiver_vars, sent,
                   store_vars, deliveries>>

\* a second passes
Tick ==
    /\ now_ms < ClockMs + MaxTicks * 1000
    /\ now_ms' = now_ms + 1000
    /\ UNCHANGED <<registry, sig, wire, result, pc, receiver_vars, sent,
                   store_vars, transport_vars>>

\* MolamSyncClient(config, cb_fail_max, cb_reset_timeout)
BreakerInit ==
    /\ now_ms = ClockMs
    /\ registry = <<>>
    /\ sig = NoSig
    /\ wire = NoWire
    /\ result = NoResult
    /\ pc = "start"
    /\ ReceiverIdle
    /\ ClientIdle
    /\ StoreIdle
    /\ cb \in {create_circuit_breaker(fail_max, reset_timeout) :
                  fail_max \in {1, 2, 3}, reset_timeout \in {1, 2}}
    /\ net = <<>>
    /\ deliveries = <<>>

BreakerNext ==
    \/ SyncClientCall
    \/ Tick

BreakerSpec == BreakerInit /\ [][BreakerNext]_vars

(***************************************************************************)
(* The retry loop of brique-102 python HttpClient.  A response is written  *)
(* as its status; 0 stands for a failure without a response                *)
(* (e.response is None).                                                   *)
(***************************************************************************)
\* the largest max_retries a client is built with
MaxRetries == 6

\* the dicts a caller passes as headers: None, {}, one without and one
\* with an Idempotency-Key
CallerHeaders ==
    { NoHeaders @@ [other |-> FALSE], Headers(None) @@ [other |-> FALSE],
      Headers(None) @@ [other |-> TRUE], Headers(S(<<"k">>)) @@ [other |-> TRUE] }

\* headers = extra_headers or {}, then headers["Idempotency-Key"] =
\* str(uuid.uuid4()) when the key is not in it: the key of the request,
\* and the caller's dict afterwards, which is the same object as headers
\* when it was not empty
PrepareHeaders(extra_headers, u) ==
    IF extra_headers.dict /\ (extra_headers.other \/ extra_headers.idem # None)
    THEN IF extra_headers.idem # None
         THEN [key |-> extra_headers.idem, caller |-> extra_headers]
         ELSE [key |-> UuidStr(u), caller |-> [extra_headers EXCEPT !.idem = UuidStr(u)]]
    ELSE [key |-> UuidStr(u), caller |-> extra_headers]

AttemptHeaders_Fresh(key, attempt) == IF attempt = 0 THEN key ELSE key \o FormatInt(attempt)

\* the Idempotency-Key of headers=headers in session.request: the dict is
\* built before the loop
AttemptHeaders(key, attempt) == key

\* _is_retryable_status(status)
is_retryable_status(status) ==
    status = 0 \/ status >= 500 \/ status \in {408, 429, 425}

\* _backoff(attempt)
backoff(attempt) ==
    <<200, 500, 1000, 2000, 5000>>[(IF attempt < 4 THEN attempt ELSE 4) + 1]

RetriesUsed_Late(attempt, max_retries) == attempt > max_retries

\* attempt >= self.max_retries
RetriesUsed(attempt, max_retries) == attempt >= max_retries

\* the responses of the server: success, failures without a response,
\* with a status that is retried and with one that is not
Statuses == {200, 0, 400, 499, 408, 425, 429, 500}

NoCall == [at |-> "idle", calls |-> 0]

\* HttpClient.post or put is called with a headers dict: on the first
\* call any dict, on the second the object passed before
HttpCall ==
    /\ net.at \in {"idle", "done"}
    /\ net.calls < 2
    /\ \E extra_headers \in IF net.calls = 0 THEN CallerHeaders ELSE {net.caller},
          max_retries \in IF net.calls = 0 THEN {0, 1, MaxRetries} ELSE {net.max_retries},
          bytes \in RandomBytes(16) :
       \E h \in {PrepareHeaders(extra_headers, uuid4(bytes))} :
          net' = [at |-> "send", calls |-> net.calls + 1, passed |-> extra_headers,
                  caller |-> h.caller, key |-> h.key, rand |-> bytes,
                  prev |-> IF net.calls = 0 THEN <<>>
                           ELSE <<[key |-> net.key, rand |-> net.rand,
                                   keys |-> net.keys, passed |-> net.passed]>>,
                  max_retries |-> max_retries, attempt |-> 0, attempts |-> 0,
                  keys |-> {}, last |-> 0, resent_after |-> {}, sleeps |-> <<>>,
                  exc |-> ""]
    /\ UNCHANGED <<webhook_vars, receiver_vars, sent, store_vars, cb, deliveries>>

\* one pass of the loop: session.request, then return, raise, or sleep
\* and go round again
HttpAttempt ==
    /\ net.at = "send"
    /\ \E status \in Statuses :
       \E sending \in {[net EXCEPT !.attempts = net.attempts + 1, !.last = status,
                              !.keys = net.keys \cup {AttemptHeaders(net.key, net.attempt)}]} :
          net' = IF status = 200
                 THEN [sending EXCEPT !.at = "done"]
                 ELSE IF RetriesUsed(net.attempt, net.max_retries)
                         \/ ~is_retryable_status(status)
                 THEN [sending EXCEPT !.at = "done", !.exc = "MolamError"]
                 ELSE [sending EXCEPT !.sleeps = Append(net.sleeps, backoff(net.attempt)),
                                      !.attempt = net.attempt + 1,
                                      !.resent_after = net.resent_after \cup {status}]
    /\ UNCHANGED <<webhook_vars, receiver_vars, sent, store_vars, cb, deliveries>>

RetryInit ==
    /\ now_ms = ClockMs
    /\ registry = <<>>
    /\ sig = NoSig
    /\ wire = NoWire
    /\ result = NoResult
    /\ pc = "start"
    /\ ReceiverIdle
    /\ ClientIdle
    /\ StoreIdle
    /\ cb = <<>>
    /\ net = NoCall
    /\ deliveries = <<>>

RetryNext ==
    \/ HttpCall
    \/ HttpAttempt

RetrySpec == RetryInit /\ [][RetryNext]_vars

(***************************************************************************)
(* brique-105 AiohttpAdapter.send, with a session.                         *)
(***************************************************************************)
\* what one session.request comes to: a response with its status,
\* asyncio.TimeoutError, or aiohttp.ClientError
RequestOutcomes == {"200", "404", "500", "TimeoutError", "ClientError"}

\* the exception send raises for a failed last attempt
AdapterError(outcome) ==
    IF outcome = "TimeoutError" THEN "TimeoutError" ELSE "NetworkError"

\* send is entered: for attempt in range(self.max_retries); an empty range
\* falls through to raise NetworkError("Max retries exceeded")
AdapterSend ==
    /\ net.at = "idle"
    /\ \E max_retries \in {0, 1, 3, MaxRetries} :
          net' = [at |-> IF max_retries <= 0 THEN "done" ELSE "send",
                  calls |-> 1, max_retries |-> max_retries, attempt |-> 0,
                  log |-> <<>>, sleeps |-> <<>>,
                  exc |-> IF max_retries <= 0 THEN "NetworkError" ELSE "",
                  returned |-> ""]
    /\ UNCHANGED <<webhook_vars, receiver_vars, sent, store_vars, cb, deliveries>>

\* one pass of the loop: the response is returned, or the failure is
\* raised on the last pass and slept on (0.5 * 2**attempt s) otherwise
AdapterAttempt ==
    /\ net.at = "send"
    /\ \E outcome \in RequestOutcomes :
       \E sending \in {[net EXCEPT !.log = Append(net.log, outcome)]} :
          net' = IF outcome \notin {"TimeoutError", "ClientError"}
                 THEN [sending EXCEPT !.at = "done", !.returned = outcome]
                 ELSE IF net.attempt = net.max_retries - 1
                 THEN [sending EXCEPT !.at = "done", !.exc = AdapterError(outcome)]
                 ELSE [sending EXCEPT !.attempt = net.attempt + 1,
                           !.sleeps = Append(net.sleeps, 500 * 2 ^ net.attempt)]
    /\ UNCHANGED <<webhook_vars, receiver_vars, sent, store_vars, cb, deliveries>>

AdapterNext ==
    \/ AdapterSend
    \/ AdapterAttempt

AdapterSpec == RetryInit /\ [][AdapterNext]_vars

(***************************************************************************)
(* brique-102 examples/webhook_handler.py served by several threads.       *)
(* app.run serves each request in a thread of its own; the threads share   *)
(* the module's set processed_events.  A delivery here is a request whose  *)
(* signature verify_signature accepted and whose body is a JSON object;    *)
(* verifying and parsing touch nothing the threads share.                  *)
(***************************************************************************)
MaxDeliveries == 3

\* the ids and the types of the events delivered: a type EVENT_HANDLERS
\* has a handler for, and one it has none for
EventIds == {"evt_1", "evt_2"}
EventTypes == {"payment_intent.succeeded", "customer.created"}

\* EVENT_HANDLERS.get(event_type) is not None
HasHandler(event_type) ==
    event_type \in {"payment_intent.succeeded", "payment_intent.failed", "refund.processed"}

\* molam_webhook up to the call of is_duplicate_event: the request is
\* verified and parsed, event.get("id") is id
Deliver ==
    /\ Len(deliveries) < MaxDeliveries
    /\ \E id \in EventIds, type \in EventTypes :
          deliveries' = Append(deliveries,
                               [id |-> id, type |-> type, at |-> "check",
                                seen |-> id \in processed_events,
                                invoked |-> FALSE, status |-> 0, answer |-> ""])
    /\ UNCHANGED <<webhook_vars, receiver_vars, sent, store_vars, cb, net>>

\* is_duplicate_event: the test `event_id in processed_events`; a
\* duplicate is answered 200 {"status": "duplicate"}
IsDuplicateTest(i) ==
    /\ deliveries[i].at = "check"
    /\ deliveries' = [deliveries EXCEPT ![i] =
                         IF deliveries[i].id \in processed_events
                         THEN [@ EXCEPT !.at = "done", !.status = 200,
                                        !.answer = "duplicate"]
                         ELSE [@ EXCEPT !.at = "add"]]
    /\ UNCHANGED <<webhook_vars, receiver_vars, sent, store_vars, cb, net>>

\* is_duplicate_event: processed_events.add(event_id), return False
IsDuplicateAdd(i) ==
    /\ deliveries[i].at = "add"
    /\ processed_events' = processed_events \cup {deliveries[i].id}
    /\ deliveries' = [deliveries EXCEPT ![i].at = "route"]
    /\ UNCHANGED <<webhook_vars, environ, config, http, round, sent, store_vars, cb, net>>

\* molam_webhook after is_duplicate_event returned False: the handler of
\* the type, if there is one, is called; an exception of the handler is
\* answered 200 {"status": "error"}
RouteToHandler(i) ==
    /\ deliveries[i].at = "route"
    /\ \E raises \in BOOLEAN, handled \in {HasHandler(deliveries[i].type)} :
          deliveries' = [deliveries EXCEPT ![i] =
                            [@ EXCEPT !.at = "done", !.status = 200,
                                      !.invoked = handled,
                                      !.answer = IF handled /\ raises
                                                 THEN "error" ELSE "ok"]]
    /\ UNCHANGED <<webhook_vars, receiver_vars, sent, store_vars, cb, net>>

DeliveryInit ==
    /\ now_ms = ClockMs
    /\ registry = <<>>
    /\ sig = NoSig
    /\ wire = NoWire
    /\ result = NoResult
    /\ pc = "start"
    /\ ReceiverIdle
    /\ ClientIdle
    /\ StoreIdle
    /\ TransportIdle

DeliveryNext ==
    \/ Deliver
    \/ \E i \in 1..Len(deliveries) : IsDuplicateTest(i)
    \/ \E i \in 1..Len(deliveries) : IsDuplicateAdd(i)
    \/ \E i \in 1..Len(deliveries) : RouteToHandler(i)

DeliverySpec == DeliveryInit /\ [][DeliveryNext]_vars

Next ==
    \/ GenerateSignature
    \/ TamperBody
    \/ ForgeHeader
    \/ VerifySignature
    \/ VerifyMolamSignature
    \/ HandlerVerifySignature

Spec == Init /\ [][Next]_vars


(***************************************************************************)
(* Reading the arrived request, for the properties below.  The header is   *)
(* read here from its text alone, not through the verifiers' parsers.      *)
(***************************************************************************)
RaisingVerifiers == {"verify_signature", "verify_molam_signature"}
Verifiers == RaisingVerifiers \cup {"handler_verify_signature"}

Returned(impls) == pc = "done" /\ result.impl \in impls
Accepted == result.outcome = "True"

\* the failure kind a message stands for
Kind(reason) ==
    CASE reason \in {"Missing signature header", "Missing Molam-Signature header",
                     "Invalid signature header format",
                     "Missing required fields in signature",
                     "Missing timestamp or signature in header"} -> "MalformedHeader"
      [] reason = "Invalid timestamp format" -> "InvalidTimestamp"
      [] reason \in {"Timestamp outside tolerance window",
                     "Signature timestamp outside tolerance"} -> "TimestampOutOfTolerance"
      [] reason \in {"Secret not found for key ID", "Unknown key ID"} -> "UnknownKeyId"
      [] reason = "Signature mismatch" -> "SignatureMismatch"
      [] OTHER -> "none"

HasEquals(seg) == \E i \in 1..Len(seg) : seg[i] = 61
FirstEquals(seg) ==
    CHOOSE i \in 1..Len(seg) : seg[i] = 61 /\ \A j \in 1..(i - 1) : seg[j] # 61
KeyText(seg) == SubSeq(seg, 1, FirstEquals(seg) - 1)
ValueText(seg) == SubSeq(seg, FirstEquals(seg) + 1, Len(seg))

\* brique-105 strips white space around keys and values, brique-102 and
\* the example endpoint do not
Norm(impl, str) == IF impl = "verify_signature" THEN Strip(str) ELSE str

\* What a header says, as the verifier impl reads keys and values:
\*   parseable  it is not empty and every segment holds an "="
\*   keys       the keys of its segments
\*   unique     no key is repeated
\*   t, v1, kid the value of the last segment with that key (None: no such
\*              segment), rawT the t value before any white space is removed
Read(impl, header) ==
    LET segs == Split(header, 44)
        n == Len(segs)
        key == [i \in 1..n |-> IF HasEquals(segs[i])
                               THEN Norm(impl, KeyText(segs[i])) ELSE None]
        Last(k) == CHOOSE i \in 1..n :
                       key[i] = k /\ \A j \in (i + 1)..n : key[j] # k
        Has(k) == \E i \in 1..n : key[i] = k
        Value(k) == IF Has(k) THEN Norm(impl, ValueText(segs[Last(k)])) ELSE None
    IN [parseable |-> header # <<>> /\ \A i \in 1..n : key[i] # None,
        keys |-> {key[i] : i \in 1..n} \ {None},
        unique |-> \A i, j \in 1..n : (key[i] = key[j]) => (i = j),
        t |-> Value(KeyT), v1 |-> Value(KeyV1), kid |-> Value(KeyKid),
        rawT |-> IF Has(KeyT) THEN ValueText(segs[Last(KeyT)]) ELSE None]

\* the header passes the parse step of the verifier impl
WellFormed(impl, h) ==
    /\ h.parseable
    /\ h.t # None /\ h.v1 # None
    /\ IF impl = "verify_signature" THEN h.kid # None
       ELSE h.t # <<>> /\ h.v1 # <<>>

\* the kid the header carries, "v1" when it carries none
KidOf(h) == IF h.kid # None THEN h.kid ELSE <<118, 49>>

NoSecret(secret) == secret = None \/ secret = <<>>

\* the header on the wire is the sender's, the body is the one signed, and
\* the resolver holds the signing secret under the signing kid
SignedIntact == sig.made /\ wire.header # None /\ wire.body = sig.body
ResolvesSigningSecret == Lookup(registry, sig.kid) = sig.secret

\* the same verifier run again on another header
Reverify(header) ==
    [impl |-> result.impl, tol |-> result.tol] @@
    (IF result.impl = "verify_signature"
     THEN verify_signature(header, wire.body, registry, result.tol, now_ms)
     ELSE verify_molam_signature(header, wire.body, registry, result.tol \div 1000, now_ms))

(***************************************************************************)
(* Properties.                                                             *)
(***************************************************************************)
\* C1: round trip - for any secret, body, kid and timestamp inside the
\* window, generate_signature returns a header and verify_signature accepts
\* it with the same body when the resolver returns the signing secret.
C1_RoundTrip ==
    /\ (sig.made => wire.header # None)
    /\ (Returned({"verify_signature"}) /\ SignedIntact /\ ResolvesSigningSecret
          /\ Abs(now_ms - sig.ts) <= result.tol) => Accepted

\* C2: tamper sensitivity - a header signed for body b, fresh and with the
\* right secret, verified against another body fails with signature mismatch.
C2_TamperSensitivity ==
    (Returned(RaisingVerifiers) /\ sig.made /\ wire.body # sig.body
       /\ ResolvesSigningSecret /\ Abs(now_ms - sig.ts) <= result.tol)
    => (result.outcome = "raise" /\ Kind(result.reason) = "SignatureMismatch")

\* C3: freshness window - a well-formed header with integer t fails as out
\* of tolerance exactly when |now - t| > tolerance, past and future alike;
\* a correctly signed header with |now - t| <= tolerance is accepted.
C3_FreshnessWindow ==
    Returned(RaisingVerifiers) =>
       LET h == Read(result.impl, wire.header)
           t == ParseInt(h.t)
       IN
       /\ (WellFormed(result.impl, h) /\ t[1]) =>
             ((Kind(result.reason) = "TimestampOutOfTolerance")
                <=> (Abs(now_ms - t[2]) > result.tol))
       /\ (SignedIntact /\ ResolvesSigningSecret
             /\ Abs(now_ms - sig.ts) <= result.tol) => Accepted

C3_Witness ==
    /\ Returned(RaisingVerifiers) /\ SignedIntact /\ ResolvesSigningSecret
    /\ result.tol > 0 /\ sig.ts - now_ms = result.tol
    /\ Accepted

\* C4: key rotation - the digest is checked against the secret the resolver
\* returns for the header's kid; with no secret for that kid (None or empty)
\* the failure is unknown key, never signature mismatch; a header signed
\* under a kid with that kid's secret verifies.
C4_KeyRotation ==
    Returned(RaisingVerifiers) =>
       LET h == Read(result.impl, wire.header)
           t == ParseInt(h.t)
           secret == Lookup(registry, KidOf(h))
       IN
       WellFormed(result.impl, h) =>
          /\ result.calls \in {<<>>, <<KidOf(h)>>}
          /\ result.key # None => result.key = Utf8Encode(secret)
          /\ NoSecret(secret) =>
                /\ ~Accepted
                /\ Kind(result.reason) # "SignatureMismatch"
                /\ (t[1] /\ Abs(now_ms - t[2]) <= result.tol)
                      => Kind(result.reason) = "UnknownKeyId"
          /\ (SignedIntact /\ ResolvesSigningSecret
                /\ Abs(now_ms - sig.ts) <= result.tol) => Accepted

\* the resolver has only the empty str for the kid of a fresh header whose
\* digest is the platform's under a real secret
C4_Witness ==
    /\ Returned(RaisingVerifiers)
    /\ LET h == Read(result.impl, wire.header) IN
       /\ WellFormed(result.impl, h)
       /\ Lookup(registry, KidOf(h)) = <<>>
       /\ h.v1 = PlatformDigest(Secret1, h.t, wire.body)
    /\ Kind(result.reason) = "UnknownKeyId"


\* the header with its segments in the opposite order
ReversedHeader(header) == Join(Reverse(Split(header, 44)))

\* the header without the segments whose key is none of t, v1, kid
RECURSIVE KnownSegments(_, _)
KnownSegments(impl, segs) ==
    IF segs = <<>> THEN <<>>
    ELSE IF HasEquals(segs[1])
            /\ Norm(impl, KeyText(segs[1])) \notin {KeyT, KeyV1, KeyKid}
         THEN KnownSegments(impl, Tail(segs))
         ELSE <<segs[1]>> \o KnownSegments(impl, Tail(segs))

\* C5 as stated: parsing fails as malformed exactly when the header is
\* empty, a segment has no "=", or the key t or v1 is missing.
C5_MalformedExactly ==
    Returned(RaisingVerifiers) =>
       LET h == Read(result.impl, wire.header) IN
       (Kind(result.reason) = "MalformedHeader")
          <=> ~(h.parseable /\ h.t # None /\ h.v1 # None)

\* C5: header parsing - segments are split on "," and each on its first "="
\* only; order is irrelevant when no key is repeated; unknown keys are
\* ignored; the header is malformed exactly when it is empty, a segment has
\* no "=", or a required key is missing: t, v1 or kid for verify_signature,
\* t or v1 (missing or empty) for verify_molam_signature.
C5_HeaderParsing ==
    Returned(RaisingVerifiers) =>
       LET h == Read(result.impl, wire.header)
           known == KnownSegments(result.impl, Split(wire.header, 44))
       IN
       /\ (Kind(result.reason) = "MalformedHeader") <=> ~WellFormed(result.impl, h)
       /\ result.calls \in {<<>>, <<KidOf(h)>>}
       /\ h.unique => Reverify(ReversedHeader(wire.header)) = result
       /\ (h.parseable /\ known # <<>>) => Reverify(Join(known)) = result

\* accepted: a kid holding "=", an unknown key in front, kid before v1
\* before t
C5_Witness ==
    /\ Returned(RaisingVerifiers) /\ Accepted
    /\ LET h == Read(result.impl, wire.header) IN
       /\ h.kid = <<97, 61, 98>>
       /\ <<120>> \in h.keys
       /\ KeyText(Split(wire.header, 44)[1]) = <<120>>

\* C6: default key id - verify_molam_signature treats a header with t and
\* v1 but no kid as the same header with kid=v1: the resolver is asked for
\* "v1" and the header is accepted exactly when it is fresh and its digest
\* is the one made with the secret returned for "v1".
C6_DefaultKeyId ==
    Returned({"verify_molam_signature"}) =>
       LET h == Read(result.impl, wire.header)
           t == ParseInt(h.t)
           secret == Lookup(registry, <<118, 49>>)
       IN
       (h.t # None /\ h.v1 # None /\ h.kid = None) =>
          /\ Reverify(wire.header \o <<44, 107, 105, 100, 61, 118, 49>>) = result
          /\ result.calls \in {<<>>, << <<118, 49>> >>}
          /\ Accepted <=>
                /\ WellFormed(result.impl, h)
                /\ t[1] /\ Abs(now_ms - t[2]) <= result.tol
                /\ ~NoSecret(secret)
                /\ h.v1 = PlatformDigest(secret, h.t, wire.body)

C6_Witness ==
    /\ Returned({"verify_molam_signature"}) /\ Accepted
    /\ Read(result.impl, wire.header).kid = None
    /\ result.calls = << <<118, 49>> >>

\* C7: required fields - verify_signature rejects a header lacking t, v1 or
\* kid as malformed, with the missing-required-fields message when the
\* header parses, before the timestamp is looked at and without a call of
\* the resolver.
C7_RequiredFields ==
    Returned({"verify_signature"}) =>
       LET h == Read(result.impl, wire.header) IN
       (h.t = None \/ h.v1 = None \/ h.kid = None) =>
          /\ result.outcome = "raise" /\ result.exc = "SignatureError"
          /\ Kind(result.reason) = "MalformedHeader"
          /\ h.parseable => result.reason = "Missing required fields in signature"
          /\ result.calls = <<>>

\* a header that parses, has no kid and whose t is no integer
C7_Witness ==
    /\ Returned({"verify_signature"})
    /\ LET h == Read(result.impl, wire.header) IN
       h.parseable /\ h.kid = None /\ h.t # None /\ ~ParseInt(h.t)[1]
    /\ result.reason = "Missing required fields in signature"

\* C8: canonicalization - every verifier computes the HMAC over the t value
\* as it appeared in the header, a period and the raw body bytes, and does
\* so for every body.
C8_Canonicalization ==
    Returned(Verifiers) =>
       LET h == Read(result.impl, wire.header) IN
       /\ result.exc # "UnicodeDecodeError"
       /\ result.signed # None => result.signed = Utf8Encode(h.rawT) \o <<46>> \o wire.body

\* C9: check ordering - header parse, timestamp integer, tolerance, secret
\* resolution, digest comparison are evaluated in this order and the first
\* one that fails gives the reason; the resolver is called at most once and
\* only after the first three have passed.
C9_CheckOrdering ==
    Returned(RaisingVerifiers) =>
       LET h == Read(result.impl, wire.header)
           t == ParseInt(h.t)
           parse_ok == WellFormed(result.impl, h)
           int_ok == parse_ok /\ t[1]
           fresh == int_ok /\ Abs(now_ms - t[2]) <= result.tol
           resolved == fresh /\ ~NoSecret(Lookup(registry, KidOf(h)))
       IN
       /\ ~parse_ok => Kind(result.reason) = "MalformedHeader"
       /\ (parse_ok /\ ~int_ok) => Kind(result.reason) = "InvalidTimestamp"
       /\ (int_ok /\ ~fresh) => Kind(result.reason) = "TimestampOutOfTolerance"
       /\ (fresh /\ ~resolved) => Kind(result.reason) = "UnknownKeyId"
       /\ (Kind(result.reason) = "SignatureMismatch") =>
             resolved /\ h.v1 # HmacSha256Hex(result.key, result.signed)
       /\ (resolved /\ result.signed # None /\ result.exc # "TypeError") =>
             (Accepted <=> h.v1 = HmacSha256Hex(result.key, result.signed))
       /\ Accepted => resolved
       /\ Len(result.calls) <= 1
       /\ result.calls # <<>> => fresh

\* a stale header from an unknown kid with a wrong digest: the stale
\* timestamp is what is reported and the resolver is not called
C9_Witness ==
    /\ Returned(RaisingVerifiers)
    /\ LET h == Read(result.impl, wire.header) IN
       /\ WellFormed(result.impl, h)
       /\ NoSecret(Lookup(registry, KidOf(h)))
       /\ h.v1 = <<97, 98, 99>>
    /\ Kind(result.reason) = "TimestampOutOfTolerance"
    /\ result.calls = <<>>

\* C10: every failed verification carries a reason that identifies its
\* kind; none is signalled by a bare False or None.
C10_FailureHasReason ==
    (Returned(Verifiers) /\ ~Accepted) =>
       /\ result.outcome = "raise"
       /\ Kind(result.reason) # "none"

(***************************************************************************)
(* Properties of the resolver call and of the endpoints.                   *)
(***************************************************************************)
\* what the resolver table itself holds for a kid
Entry(resolver, kid) ==
    IF kid \in DOMAIN resolver THEN resolver[kid]
    ELSE IF AnyKid \in DOMAIN resolver THEN resolver[AnyKid] ELSE None

\* the resolver the finished call was given
ResolverUsed ==
    IF http.endpoint = "verify_webhook" THEN VersionedResolver(environ) ELSE registry

\* the finished call reached the resolver, which raised
ResolverRaised ==
    /\ Returned(RaisingVerifiers)
    /\ result.calls # <<>>
    /\ Entry(ResolverUsed, result.calls[1]) = ResolverRaises

\* the five kinds of verification failure
FailureKinds ==
    {"MalformedHeader", "InvalidTimestamp", "TimestampOutOfTolerance",
     "UnknownKeyId", "SignatureMismatch"}

Contains(text, sub) ==
    \E i \in 1..(Len(text) - Len(sub) + 1) : SubSeq(text, i, i + Len(sub) - 1) = sub

\* every text the finished request put into an error message or a line
Written ==
    {result.text}
    \cup UNION {{result.logged[i].args[j] : j \in 1..Len(result.logged[i].args)} :
                i \in 1..Len(result.logged)}
    \cup UNION {{http.logs[i].args[j] : j \in 1..Len(http.logs[i].args)} :
                i \in 1..Len(http.logs)}

\* C13: no error message and no log line written while a webhook is
\* verified or handled contains the claimed digest (the v1 value of the
\* header) or the computed digest.
C13_NoDigestWritten ==
    (pc = "done" /\ result.impl \in Verifiers) =>
       LET h == Read(result.impl, wire.header)
           claimed == IF h.v1 = None THEN <<>> ELSE h.v1
           computed == IF result.key = None THEN <<>>
                       ELSE HmacSha256Hex(result.key, result.signed)
       IN \A text \in Written :
             /\ claimed # <<>> => ~Contains(text, claimed)
             /\ computed # <<>> => ~Contains(text, computed)

\* C14: an endpoint answers 401 and routes the event to no handler
\* whenever the verification of the request did not succeed, whatever the
\* failure: no header, malformed header, stale timestamp, unknown key id,
\* mismatch, or an error raised on the way.
C14_RejectsUnverified ==
    (pc = "done" /\ http.endpoint # "" /\ result.outcome # "True") =>
       /\ http.status = 401
       /\ ~http.dispatched
       /\ processed_events = {}

\* the platform's own event, correctly signed but older than the
\* tolerance, is turned away by the webhook_receiver endpoint
C14_Witness ==
    /\ pc = "done"
    /\ http.endpoint = "webhook_receiver"
    /\ sig.made
    /\ Kind(result.reason) = "TimestampOutOfTolerance"
    /\ http.status = 401

(***************************************************************************)
(* Properties of rotation.                                                 *)
(***************************************************************************)
\* the secret now registered for the kid, where the finished call had to
\* look for it
Registered(impl, kid) ==
    IF impl = "verify_webhook_signature" THEN environ["MOLAM_WEBHOOK_SECRET"]
    ELSE Entry(registry, kid)

\* C12: the secret is resolved anew on every call: whatever rotations
\* came before, a fresh intact header is accepted exactly when it was
\* signed with the secret registered for its kid at the time of the call,
\* so one signed with a replaced secret is rejected.
C12_ResolvedAnew ==
    ( /\ pc = "done"
      /\ result.impl \in RaisingVerifiers \cup {"verify_webhook_signature"}
      /\ sig.made /\ wire.body = sig.body
      /\ ~OutsideTolerance(now_ms, sig.ts, result.tol) )
    => (Accepted <=> sig.secret = Registered(result.impl, sig.kid))

(***************************************************************************)
(* Properties of idempotency keys.                                         *)
(***************************************************************************)
KeyCall == pc = "done" /\ sent.client = "make_idempotency_key"

\* C15 as stated: make_idempotency_key returns every supplied key of at
\* most 128 characters unchanged, the empty string included, and fails
\* with the key-too-long error for every longer one.
C15_AnySuppliedKey ==
    (KeyCall /\ sent.supplied # None) =>
        IF Len(sent.supplied) <= 128
        THEN sent.outcome = "return" /\ sent.value = sent.supplied
        ELSE sent.outcome = "raise" /\ sent.exc = "ValueError"

\* C15: make_idempotency_key returns every supplied non-empty key of at
\* most 128 characters unchanged and fails with the key-too-long error
\* (ValueError) for every longer one; for the empty string it returns a
\* generated key.  It never returns a shortened or altered supplied key.
C15_NonEmptyKeyUnchanged ==
    (KeyCall /\ sent.supplied # None) =>
        /\ (Len(sent.supplied) \in 1..128) =>
               (sent.outcome = "return" /\ sent.value = sent.supplied)
        /\ (Len(sent.supplied) > 128) =>
               /\ sent.outcome = "raise" /\ sent.exc = "ValueError"
               /\ sent.reason = "Idempotency key too long (max 128 characters)"
        /\ (sent.supplied = <<>>) =>
               /\ sent.outcome = "return"
               /\ Take(sent.value, 6) = S(<<"m", "o", "l", "a", "m", "-">>)

C15_Witness ==
    /\ KeyCall /\ sent.supplied # None
    /\ Len(sent.supplied) = 128
    /\ sent.value = sent.supplied

ClientSent == pc = "done" /\ sent.outcome = "sent"

\* C17: every Idempotency-Key header value an SDK client puts on an
\* outbound request is at most 128 characters long.
C17_HeaderAtMost128 ==
    (ClientSent /\ sent.header # None) => Len(sent.header) <= 128

\* the call is one of the mutating calls of a MolamClient that C18 lists
MutatingCall ==
    /\ sent.client \in {"brique-105", "python-complete"}
    /\ sent.method = "POST"
    /\ sent.op \in {"create_payment_intent", "confirm_payment_intent",
                     "cancel_payment_intent", "create_refund", "create_payout"}

\* C18: every mutating call sent through a MolamClient carries an
\* Idempotency-Key header: the caller's key unchanged when one is
\* supplied, a generated key when none is supplied.
C18_MutatingCallHasKey ==
    (ClientSent /\ MutatingCall) =>
        /\ sent.header # None
        /\ sent.supplied # None => sent.header = sent.supplied

(***************************************************************************)
(* Properties of the idempotency store.                                    *)
(***************************************************************************)
\* C19: once store_response(k, r, resp) has completed, every
\* get_cached_response(k, r) before a further store_response for k and r
\* returns resp with its status, whatever was stored before and whatever
\* calls for other keys or routes came in between.
C19_ReplayReturnsStored ==
    (got # <<>> /\ stored[got[1]] # None) => got[2] = stored[got[1]]

\* C20: of the requests with the same idempotency key and route that are
\* handled concurrently, at most one executes the operation.
C20_AtMostOneExecutes ==
    \A h1 \in Handlers, h2 \in Handlers :
        (h1 # h2 /\ handlers[h1].req = handlers[h2].req) =>
            ~(handlers[h1].executed /\ handlers[h2].executed)

(***************************************************************************)
(* Properties of construct_event.                                          *)
(***************************************************************************)
\* the body is UTF-8 text that is a JSON document
ValidJson(body) == Utf8Decode(body) # None /\ body = EventBody

\* C21: construct_event returns the decoded payload only when
\* verify_molam_signature accepts header and payload: when the
\* verification fails its error is what construct_event raises, whether
\* or not the payload is JSON; a verified payload that is not valid UTF-8
\* JSON yields WebhookVerificationError "Invalid JSON payload".
C21_EventOnlyWhenVerified ==
    (pc = "done" /\ result.impl = "construct_event") =>
        \A v \in {verify_molam_signature(wire.header, wire.body, registry,
                                         DefaultToleranceSeconds, now_ms)} :
            /\ v.outcome = "raise" =>
                   /\ result.outcome = "raise"
                   /\ result.exc = v.exc /\ result.reason = v.reason
                   /\ result.text = v.text
            /\ (v.outcome = "True" /\ ValidJson(wire.body)) => result.outcome = "event"
            /\ (v.outcome = "True" /\ ~ValidJson(wire.body)) =>
                   /\ result.outcome = "raise"
                   /\ result.exc = "WebhookVerificationError"
                   /\ result.reason = "Invalid JSON payload"

\* a correctly signed payload that is not JSON was verified and refused
C21_Witness ==
    /\ pc = "done" /\ result.impl = "construct_event"
    /\ result.reason = "Invalid JSON payload"
    /\ result.calls # <<>>

(***************************************************************************)
(* Properties of the circuit breaker.                                      *)
(***************************************************************************)
\* the failed requests at the end of a log of calls, back to the last
\* success
RECURSIVE TrailingFailures(_)
TrailingFailures(log) ==
    IF log = <<>> \/ ~log[Len(log)].fails \/ ~log[Len(log)].invoked THEN 0
    ELSE 1 + TrailingFailures(SubSeq(log, 1, Len(log) - 1))

\* C22: a breaker with fail_max = n stays closed through the first n-1
\* consecutive failing calls, each raising the original error, opens on
\* the n-th, which raises CircuitBreakerError, and while open, before the
\* reset timeout, rejects every call with CircuitBreakerError without
\* sending the request.
C22_OpensAtFailMax ==
    \A i \in 1..Len(net) :
        \A call \in {net[i]} :
        \A failures \in {TrailingFailures(SubSeq(net, 1, i - 1)) + 1} :
            /\ (call.before.state = "closed" /\ call.fails
                 /\ failures < call.before.fail_max) =>
                   (call.invoked /\ call.exc = "APIError" /\ call.after = "closed")
            /\ (call.before.state = "closed" /\ call.fails
                 /\ failures = call.before.fail_max) =>
                   (call.invoked /\ call.exc = "CircuitBreakerError"
                    /\ call.after = "open")
            /\ (call.before.state = "open"
                 /\ call.at < call.before.opened_at + call.before.reset_timeout * 1000) =>
                   (~call.invoked /\ call.exc = "CircuitBreakerError"
                    /\ call.after = "open")

\* three failures opened a breaker with fail_max = 3 and the next call
\* was rejected
C22_Witness ==
    /\ Len(net) >= 4
    /\ net[1].before.fail_max = 3
    /\ net[3].after = "open" /\ net[3].invoked
    /\ ~net[4].invoked

(***************************************************************************)
(* Properties of the retry loop.                                           *)
(***************************************************************************)
InCall == net.at \in {"send", "done"}

\* C23: all attempts of one _request_with_retry call carry the same
\* Idempotency-Key: the caller's value when the headers passed hold one,
\* otherwise one UUID generated before the first attempt.
C23_SameKeyOnEveryAttempt ==
    InCall =>
        /\ Cardinality(net.keys) <= 1
        /\ \A key \in net.keys :
               IF net.passed.dict /\ net.passed.idem # None
               THEN key = net.passed.idem
               ELSE key = UuidStr(uuid4(net.rand))

C23_Witness ==
    /\ InCall /\ net.calls = 1
    /\ net.attempts >= 3
    /\ net.passed.idem = None
    /\ Cardinality(net.keys) = 1

\* the wait before the i-th retry
ExpectedWait(i) ==
    CASE i = 1 -> 200 [] i = 2 -> 500 [] i = 3 -> 1000 [] i = 4 -> 2000 [] OTHER -> 5000

C28_FreshKeyPerCall ==
    /\ (InCall /\ net.passed.dict) => net.caller = net.passed
    /\ (InCall /\ net.calls = 2 /\ net.attempts > 0) =>
           \A first \in {net.prev[1]} :
               (first.passed.idem = None /\ first.rand # net.rand
                /\ first.keys # {}) => first.keys # net.keys

(***************************************************************************)
(* Properties of AiohttpAdapter.send.                                      *)
(***************************************************************************)
\* C25: max_retries is the number of retries: the request is attempted
\* once and retried up to max_retries more times, only after a timeout or
\* a client error; the first response is returned whatever its status;
\* the adapter gives up only when the last of the max_retries + 1
\* attempts has failed, with TimeoutError for a timeout and NetworkError
\* for a client error.
C25_RetriesUpToMaxRetries ==
    (net.at = "done" /\ net.calls = 1) =>
        /\ Len(net.log) >= 1
        /\ Len(net.log) <= net.max_retries + 1
        /\ \A i \in 1..(Len(net.log) - 1) : net.log[i] \in {"TimeoutError", "ClientError"}
        /\ net.exc = "" => net.returned = net.log[Len(net.log)]
        /\ net.exc # "" =>
               /\ Len(net.log) = net.max_retries + 1
               /\ net.exc = IF net.log[Len(net.log)] = "TimeoutError"
                            THEN "TimeoutError" ELSE "NetworkError"

(***************************************************************************)
(* Properties of the webhook_handler endpoint under concurrent deliveries. *)
(***************************************************************************)
\* the deliveries of event id whose handler was called
HandledDeliveries(id) ==
    {i \in 1..Len(deliveries) : deliveries[i].id = id /\ deliveries[i].invoked}

\* C26: whatever the interleaving of the deliveries with valid signatures,
\* a handler is called for at most one delivery of each event id, and
\* every delivery that arrives once its id is in processed_events is
\* answered 200 with status "duplicate" and calls no handler.
C26_HandlerAtMostOncePerEventId ==
    /\ \A id \in EventIds : Cardinality(HandledDeliveries(id)) <= 1
    /\ \A i \in 1..Len(deliveries) :
          (deliveries[i].seen /\ deliveries[i].at = "done") =>
             /\ deliveries[i].status = 200
             /\ deliveries[i].answer = "duplicate"
             /\ ~deliveries[i].invoked

(***************************************************************************)
(* Properties of the failure type of the verifiers.                        *)
(***************************************************************************)
\* the signature error of the package of a verifier
PackageError(impl) ==
    IF impl = "verify_signature" THEN "SignatureError" ELSE "WebhookVerificationError"

\* C27: for every header, every body (valid UTF-8 or not) and every
\* resolver, verify_signature and verify_molam_signature return True or
\* raise the signature error of their package; no other exception leaves
\* them, a v1 value with non-ASCII characters included.
C27_OnlySignatureErrorEscapes ==
    Returned(RaisingVerifiers) =>
       \/ result.outcome = "True"
       \/ /\ result.outcome = "raise"
          /\ result.exc = PackageError(result.impl)

(***************************************************************************)
(* Properties of the routes of the IdempotencyStore.                       *)
(***************************************************************************)
\* the step is the call store_response(req[1], req[2], resp[1], resp[2])
IsStoreResponse(req, resp) ==
    /\ db' = store_response(db, req[1], req[2], resp[1], resp[2])
    /\ stored' = [stored EXCEPT ![req] = resp]
    /\ got' = <<>>

\* C29: store_response(k, r2, resp2) leaves get_cached_response(k, r1)
\* as it was for every route r1 other than r2, and get_cached_response(k, r2)
\* returns resp2 afterwards, also when k was stored under r1 before.
C29_RouteIsolation ==
    [][\A req \in Requests, resp \in Responses :
          IsStoreResponse(req, resp) =>
             /\ \A other \in Requests :
                   (other[1] = req[1] /\ other[2] # req[2]) =>
                      get_cached_response(db', other[1], other[2])
                         = get_cached_response(db, other[1], other[2])
             /\ get_cached_response(db', req[1], req[2]) = resp]_vars

(***************************************************************************)
(* Properties of the two verifiers side by side.                           *)
(***************************************************************************)
\* what the other verifier of the pair answers to the request the
\* finished call has verified, with the same resolver, clock and tolerance
OtherVerifier ==
    IF result.impl = "verify_signature"
    THEN verify_molam_signature(wire.header, wire.body, registry,
                                result.tol \div 1000, now_ms)
    ELSE verify_signature(wire.header, wire.body, registry, result.tol, now_ms)

\* C30: on every header, every body that is valid UTF-8, every resolver,
\* clock value and tolerance, verify_signature and verify_molam_signature
\* agree on acceptance: both return True or both fail.
C30_VerifiersAgree ==
    (Returned(RaisingVerifiers) /\ Utf8Decode(wire.body) # None) =>
       \A other \in {OtherVerifier} : Accepted <=> other.outcome = "True"

====
